--------------------------- MODULE Spec2Model ---------------------------
(***************************************************************************)
(* Verification model of stud-ip-scraper.                                  *)
(*                                                                         *)
(* Part 1: the course module registry (src/src/course_modules.rs) and      *)
(*         module discovery / lookup on a Course (src/src/course.rs).      *)
(* Part 2: the MyCourses aggregate and its refresh (src/src/course.rs).    *)
(* Part 3: the request gate of StudIpClient (src/src/lib.rs).              *)
(*                                                                         *)
(* Strings that the code inspects are modelled as sequences of tokens, so  *)
(* that str::replace is computed the way the code computes it.  The tab id *)
(* prefix "nav_course_" is the two tokens <<"nav_", "course_">>.           *)
(***************************************************************************)
EXTENDS Integers, Sequences, FiniteSets, TLC

(***************************************************************************)
(* Bounds of the model.                                                    *)
(***************************************************************************)
\* threads that use the registry concurrently
NThreads == 2
\* tabs in one navigation fragment
MaxTabs == 2

\* members of the setCourses object of one MyCoursesData payload
MaxCourseEntries == 2
\* course ids listed by the entry of a set group
MaxGroupIds == 2
\* the clock stops here
MaxTime == 8
\* entries of the data-files payload of one folder listing
MaxFileEntries == 2
\* entries of the data-folders payload of one folder listing
MaxFolderEntries == 1
\* tables in the content of one members page
MaxTables == 2
\* tokens of a text given to strip_markings
MaxTextLen == 5
\* tokens of a label given to local_to_key
MaxLabelLen == 4
\* group headers on one groups page
MaxHeaders == 2
\* article elements in one news box
MaxArticles == 1
\* comment elements on one page
MaxComments == 2
\* result rows on one evaluation page
MaxRows == 2

\* entries of a set group, and set groups of an aggregate, handed to
\* get_courses
MaxGroupEntries == 2

MaxSetGroups == 2
\* the largest request_max_speed a client is built with
MaxInterval == 2
\* requests constructed through one client
MaxRequests == 3

Threads == 1..NThreads

(***************************************************************************)
(* Module kinds.  FileModule, MembersModule and OverviewModule are the     *)
(* types of the repository; WikiA and WikiB stand for two user-defined     *)
(* CourseModule implementations whose name() is the same string.           *)
(***************************************************************************)
BuiltInTypes == {"FileModule", "MembersModule", "OverviewModule"}

CustomTypes == {"WikiA", "WikiB"}

Types == BuiltInTypes \cup CustomTypes

\* Types a caller can pass to register_course_module: course_modules.rs
\* declares only the modules file and members, so OverviewModule is not
\* part of the crate's module tree.
RegistrableTypes == {"FileModule", "MembersModule"} \cup CustomTypes

NoCtor == "NoCtor"

\* CourseModule::name() of each kind
NameOf(M) ==
    CASE M = "FileModule" -> <<"files">>
      [] M = "MembersModule" -> <<"members">>
      [] M = "OverviewModule" -> <<"main">>
      [] OTHER -> <<"wiki">>

\* the literal "nav_course_" of Course::query_modules
TAB_PREFIX == <<"nav_", "course_">>

(***************************************************************************)
(* str::replace(from, ""): every non-overlapping occurrence of from,       *)
(* scanning left to right, is removed.                                     *)
(***************************************************************************)
RECURSIVE RemoveAll(_, _)
RemoveAll(s, from) ==
    IF Len(s) < Len(from) \/ Len(from) = 0 THEN s
    ELSE IF SubSeq(s, 1, Len(from)) = from
         THEN RemoveAll(SubSeq(s, Len(from) + 1, Len(s)), from)
         ELSE <<Head(s)>> \o RemoveAll(Tail(s), from)

\* the candidate module name of a tab id (course.rs line 81)
ModuleNameOfTab(id) == RemoveAll(id, TAB_PREFIX)

(***************************************************************************)
(* Tabs: scraper's Element::id() is an Option.                             *)
(***************************************************************************)
TabWithId(id) == [has_id |-> TRUE, id |-> id]

NoIdTab == [has_id |-> FALSE, id |-> <<>>]

\* the tabs a fragment is made of: no id, the tabs of files, wiki, members
\* and main, "nav_course_nav_course_files" and "nav_nav_course_course_files"
AllTabs ==
    { NoIdTab,
      TabWithId(TAB_PREFIX \o <<"files">>),
      TabWithId(TAB_PREFIX \o <<"wiki">>),
      TabWithId(TAB_PREFIX \o <<"members">>),
      TabWithId(TAB_PREFIX \o <<"main">>),
      TabWithId(TAB_PREFIX \o TAB_PREFIX \o <<"files">>),
      TabWithId(<<"nav_">> \o TAB_PREFIX \o <<"course_", "files">>) }

\* navigation fragments: sequences of tabs with pairwise different ids
\* (ids are unique within one document)
TabLists(maxLen) ==
    UNION { { tl \in [1..n -> AllTabs] : \A i, j \in 1..n : i # j => tl[i] # tl[j] }
            : n \in 0..maxLen }

\* the fragments of the concurrent specification: none, or one tab
ConcTabLists ==
    { <<>>, <<NoIdTab>>, <<TabWithId(TAB_PREFIX \o <<"files">>)>>,
      <<TabWithId(TAB_PREFIX \o <<"wiki">>)>> }

(***************************************************************************)
(* The registry: HashMap<&'static str, ModuleConstructor>.  A constructor  *)
(* is the closure |data| Box::new(M::new(data)); it is identified with M.  *)
(***************************************************************************)
EmptyMap == [n \in {} |-> NoCtor]

\* HashMap::insert: insert, or overwrite the value of an existing key
\* (course_modules.rs line 35)
MapInsertIfAbsent(reg, M) ==
    IF NameOf(M) \in DOMAIN reg THEN reg
    ELSE [n \in DOMAIN reg \cup {NameOf(M)} |-> IF n = NameOf(M) THEN M ELSE reg[n]]

MapInsert(reg, M) ==
    [n \in DOMAIN reg \cup {NameOf(M)} |-> IF n = NameOf(M) THEN M ELSE reg[n]]

\* HashMap::get
MapGet(reg, name) == IF name \in DOMAIN reg THEN reg[name] ELSE NoCtor

\* a module instance built by the constructor of kind M from
\* CourseModuleData {course_id, client}
NewModule(M, course_id) == [kind |-> M, course_id |-> course_id]

\* the course owned by thread t (Course holds an Rc and is not Send)
CourseId(t) == t

(***************************************************************************)
(* html.select(..).filter_map(..).collect() of Course::query_modules.      *)
(***************************************************************************)
RECURSIVE FilterMapTabs(_, _, _)
FilterMapTabs(tl, reg, course_id) ==
    IF tl = <<>> THEN <<>>
    ELSE LET ctor == MapGet(reg, ModuleNameOfTab(Head(tl).id))
             rest == FilterMapTabs(Tail(tl), reg, course_id)
         IN IF ctor = NoCtor THEN rest
            ELSE <<NewModule(ctor, course_id)>> \o rest

\* tab.id().unwrap() panics on a tab without an id attribute
UnwrapPanics(tl) == \E i \in 1..Len(tl) : ~tl[i].has_id

(***************************************************************************)
(* modules.iter_mut().find_map(|m| m.as_any().downcast_mut::<M>()):        *)
(* the index of the first entry of kind M, 0 for None.                     *)
(***************************************************************************)
RECURSIVE FindMapFrom(_, _, _)
FindMapFrom(mods, M, i) ==
    IF i > Len(mods) THEN 0
    ELSE IF mods[i].kind = M THEN i
    ELSE FindMapFrom(mods, M, i + 1)

FindMapLast(mods, M) ==
    LET hits == {i \in 1..Len(mods) : mods[i].kind = M}
    IN IF hits = {} THEN 0 ELSE CHOOSE i \in hits : \A j \in hits : j <= i

FindMap(mods, M) == FindMapFrom(mods, M, 1)

(***************************************************************************)
(* State.                                                                  *)
(***************************************************************************)
VARIABLES
    registry,     \* COURSE_MODULE_REGISTRY: the map behind the mutex
    mutexHolder,  \* the thread holding the registry mutex, 0 if free
    poisoned,     \* the mutex's poison flag
    once,         \* REGISTERED_DEFAULT_COURSE_MODULES: "uninit", "running", "done"
    initRuns,     \* how often register_default_course_modules was entered
    pc,           \* each thread's position
    arg,          \* the type parameter M of the thread's current call
    caller,       \* "user" or "default": who called register_course_module
    tabs,         \* the tabs of the response a discovery is processing
    modules,      \* Course.modules of each thread's course
    requeried,    \* whether the course's last successful discovery found modules non-empty
    got           \* the borrow returned by get_module: index into modules, 0 = None

regVars == <<registry, mutexHolder, poisoned, once, initRuns, pc, arg, caller,
             tabs, modules, requeried, got>>

VARIABLES
    mc,            \* the MyCourses aggregate: courses, set_groups, user_id, config, client
    mcPc,          \* "idle", or "sent" while MyCourses::query awaits its response
    mcResp,        \* the response the last MyCourses::query received
    mcSentVia,     \* the client the last MyCourses::query was sent through
    mcDropped      \* whether the last successful query left out a course held before

mcVars == <<mc, mcPc, mcResp, mcSentVia, mcDropped>>

VARIABLES
    now,                \* the system clock (SystemTime::now())
    last_request_time,  \* StudIpClient.last_request_time
    request_max_speed,  \* StudIpClient.request_max_speed
    rlPc,               \* "unbuilt", "idle", or "gate" inside before_request
    wakeAt,             \* the earliest time the sleep of before_request ends
    wait_time,          \* the wait_time the last before_request computed
    prevBuilt,          \* when the request before the last was constructed
    nBuilt              \* requests constructed so far

rateVars == <<now, last_request_time, request_max_speed, rlPc, wakeAt, wait_time,
              prevBuilt, nBuilt>>

VARIABLES
    opPc,      \* "idle", "sent" while an operation awaits a response, "done"
    opCall,    \* the operation of the session in progress and its arguments
    opSent,    \* the requests the operation has sent so far, in order
    opResp,    \* the response to the last request sent
    opResult   \* what the operation returned

opVars == <<opPc, opCall, opSent, opResp, opResult>>

VARIABLES
    fnCall,    \* the pure function applied last and its arguments
    fnOut      \* what it returned

fnVars == <<fnCall, fnOut>>

VARIABLES
    article,        \* a NewsArticle that parse_news_box returned, if any
    questionnaire   \* a Questionnaire that parse_questionnaire returned, if any

objVars == <<article, questionnaire>>

vars == <<regVars, mcVars, rateVars, opVars, fnVars, objVars>>

InitRegistry ==
    /\ registry = EmptyMap
    /\ mutexHolder = 0
    /\ poisoned = FALSE
    /\ once = "uninit"
    /\ initRuns = 0
    /\ pc = [t \in Threads |-> "idle"]
    /\ arg = [t \in Threads |-> "none"]
    /\ caller = [t \in Threads |-> "user"]
    /\ tabs = [t \in Threads |-> <<>>]
    /\ modules = [t \in Threads |-> <<>>]
    /\ requeried = [t \in Threads |-> FALSE]
    /\ got = [t \in Threads |-> 0]


(***************************************************************************)
(* register_course_module::<M>()                                           *)
(***************************************************************************)
\* a caller enters register_course_module::<M>()
RegisterCall(t, M) ==
    /\ pc[t] = "idle"
    /\ pc' = [pc EXCEPT ![t] = "reg_lock"]
    /\ arg' = [arg EXCEPT ![t] = M]
    /\ caller' = [caller EXCEPT ![t] = "user"]
    /\ UNCHANGED <<mcVars, rateVars, opVars, fnVars, objVars>>
    /\ UNCHANGED <<registry, mutexHolder, poisoned, once, initRuns, tabs, modules,
                   requeried, got>>

\* a lock that never blocks
MutexFreeAlways(holder) == TRUE

\* whether lock() can return now: Mutex::lock blocks while another holds it
MutexFree(holder) == holder = 0

\* COURSE_MODULE_REGISTRY.lock().unwrap() (line 34): blocks while the mutex
\* is held; on a poisoned mutex lock() returns Err and unwrap panics.  A
\* panic inside the OnceCell initialiser leaves the cell uninitialised.
RegLock(t) ==
    /\ pc[t] = "reg_lock"
    /\ MutexFree(mutexHolder)
    /\ IF poisoned
       THEN /\ pc' = [pc EXCEPT ![t] = "panicked_poison"]
            /\ once' = IF caller[t] = "default" THEN "uninit" ELSE once
            /\ UNCHANGED mutexHolder
       ELSE /\ pc' = [pc EXCEPT ![t] = "reg_insert"]
            /\ mutexHolder' = t
            /\ UNCHANGED once
    /\ UNCHANGED <<mcVars, rateVars, opVars, fnVars, objVars>>
    /\ UNCHANGED <<registry, poisoned, initRuns, arg, caller, tabs, modules,
                   requeried, got>>

\* registry.insert(M::name(), ctor) and the guard's drop (lines 35-36).
\* For the default registration (lines 54-55) FileModule is followed by
\* MembersModule, after which get_or_init marks the cell initialised and
\* query_modules goes on to line 69.
RegInsert(t) ==
    /\ pc[t] = "reg_insert"
    /\ registry' = MapInsert(registry, arg[t])
    /\ mutexHolder' = 0
    /\ IF caller[t] = "user"
       THEN /\ pc' = [pc EXCEPT ![t] = "idle"]
            /\ arg' = [arg EXCEPT ![t] = "none"]
            /\ UNCHANGED <<once, caller>>
       ELSE IF arg[t] = "FileModule"
       THEN /\ pc' = [pc EXCEPT ![t] = "reg_lock"]
            /\ arg' = [arg EXCEPT ![t] = "MembersModule"]
            /\ UNCHANGED <<once, caller>>
       ELSE /\ pc' = [pc EXCEPT ![t] = "q_lock"]
            /\ arg' = [arg EXCEPT ![t] = "none"]
            /\ caller' = [caller EXCEPT ![t] = "user"]
            /\ once' = "done"
    /\ UNCHANGED <<mcVars, rateVars, opVars, fnVars, objVars>>
    /\ UNCHANGED <<poisoned, initRuns, tabs, modules, requeried, got>>

(***************************************************************************)
(* Course::query_modules                                                   *)
(***************************************************************************)
\* a caller enters query_modules on its course
QueryCall(t) ==
    /\ pc[t] = "idle"
    /\ pc' = [pc EXCEPT ![t] = "q_once"]
    /\ UNCHANGED <<mcVars, rateVars, opVars, fnVars, objVars>>
    /\ UNCHANGED <<registry, mutexHolder, poisoned, once, initRuns, arg, caller,
                   tabs, modules, requeried, got>>

\* the state OnceCell::get_or_init leaves the cell in while the caller that
\* found it uninitialised runs the initialiser
OnceClaimedRacy == "uninit"

OnceClaimed == "running"

\* REGISTERED_DEFAULT_COURSE_MODULES.get_or_init(register_default_course_modules)
\* (line 68): returns at once when initialised, waits while another caller
\* initialises, and otherwise runs register_default_course_modules itself.
GetOrInit(t) ==
    /\ pc[t] = "q_once"
    /\ once # "running"
    /\ IF once = "uninit"
       THEN /\ once' = OnceClaimed
            /\ initRuns' = initRuns + 1
            /\ pc' = [pc EXCEPT ![t] = "reg_lock"]
            /\ arg' = [arg EXCEPT ![t] = "FileModule"]
            /\ caller' = [caller EXCEPT ![t] = "default"]
       ELSE /\ pc' = [pc EXCEPT ![t] = "q_lock"]
            /\ UNCHANGED <<once, initRuns, arg, caller>>
    /\ UNCHANGED <<mcVars, rateVars, opVars, fnVars, objVars>>
    /\ UNCHANGED <<registry, mutexHolder, poisoned, tabs, modules, requeried, got>>

\* let module_reg = COURSE_MODULE_REGISTRY.lock().unwrap() (line 69)
QueryLock(t) ==
    /\ pc[t] = "q_lock"
    /\ MutexFree(mutexHolder)
    /\ IF poisoned
       THEN /\ pc' = [pc EXCEPT ![t] = "panicked_poison"]
            /\ UNCHANGED mutexHolder
       ELSE /\ pc' = [pc EXCEPT ![t] = "q_fetch"]
            /\ mutexHolder' = t
    /\ UNCHANGED <<mcVars, rateVars, opVars, fnVars, objVars>>
    /\ UNCHANGED <<registry, poisoned, once, initRuns, arg, caller, tabs, modules,
                   requeried, got>>

\* send()? or response.text()? fails (lines 70-73): the error is returned,
\* the guard is dropped without poisoning
QueryTransportError(t) ==
    /\ pc[t] = "q_fetch"
    /\ pc' = [pc EXCEPT ![t] = "idle"]
    /\ mutexHolder' = 0
    /\ UNCHANGED <<mcVars, rateVars, opVars, fnVars, objVars>>
    /\ UNCHANGED <<registry, poisoned, once, initRuns, arg, caller, tabs, modules,
                   requeried, got>>

\* the response arrives and is parsed; html.select("#tabs li") gives tl
QueryResponse(t, tl) ==
    /\ pc[t] = "q_fetch"
    /\ pc' = [pc EXCEPT ![t] = "q_parse"]
    /\ tabs' = [tabs EXCEPT ![t] = tl]
    /\ UNCHANGED <<mcVars, rateVars, opVars, fnVars, objVars>>
    /\ UNCHANGED <<registry, mutexHolder, poisoned, once, initRuns, arg, caller,
                   modules, requeried, got>>

\* what query_modules stores in self.modules (line 79)
StoreModulesAppending(old, new) == old \o new

StoreModules(old, new) == new

\* lines 79-85: the filter_map over the tabs.  A tab without an id panics
\* in unwrap while the guard is held: unwinding drops the guard, which
\* poisons the mutex; self.modules is not assigned.
QueryParse(t) ==
    /\ pc[t] = "q_parse"
    /\ mutexHolder' = 0
    /\ tabs' = [tabs EXCEPT ![t] = <<>>]
    /\ IF UnwrapPanics(tabs[t])
       THEN /\ pc' = [pc EXCEPT ![t] = "panicked_no_id"]
            /\ poisoned' = TRUE
            /\ UNCHANGED <<modules, requeried>>
       ELSE /\ pc' = [pc EXCEPT ![t] = "idle"]
            /\ modules' = [modules EXCEPT ![t] =
                   StoreModules(@, FilterMapTabs(tabs[t], registry, CourseId(t)))]
            /\ requeried' = [requeried EXCEPT ![t] = modules[t] # <<>>]
            /\ UNCHANGED poisoned
    /\ UNCHANGED <<mcVars, rateVars, opVars, fnVars, objVars>>
    /\ UNCHANGED <<registry, once, initRuns, arg, caller, got>>

(***************************************************************************)
(* Course::get_module::<M>() and the get_module! macro                     *)
(***************************************************************************)
\* the call returns Option<&mut M>
GetModule(t, M) ==
    /\ pc[t] = "idle"
    /\ pc' = [pc EXCEPT ![t] = "got"]
    /\ arg' = [arg EXCEPT ![t] = M]
    /\ got' = [got EXCEPT ![t] = FindMap(modules[t], M)]
    /\ UNCHANGED <<mcVars, rateVars, opVars, fnVars, objVars>>
    /\ UNCHANGED <<registry, mutexHolder, poisoned, once, initRuns, caller, tabs,
                   modules, requeried>>

\* the caller lets go of the returned borrow
ReleaseModule(t) ==
    /\ pc[t] = "got"
    /\ pc' = [pc EXCEPT ![t] = "idle"]
    /\ arg' = [arg EXCEPT ![t] = "none"]
    /\ got' = [got EXCEPT ![t] = 0]
    /\ UNCHANGED <<mcVars, rateVars, opVars, fnVars, objVars>>
    /\ UNCHANGED <<registry, mutexHolder, poisoned, once, initRuns, caller, tabs,
                   modules, requeried>>

(***************************************************************************)
(* Part 2: MyCourses (course.rs lines 137-210).                            *)
(*                                                                         *)
(* A client is "session" (the one StudIp::login built and logged in) or    *)
(* "default" (a StudIpClient::default()).  A MyCoursesData payload is what *)
(* serde_json reads: setCourses is a JSON object, modelled as the sequence *)
(* of its members in document order (a key may repeat), setGroups a list   *)
(* of set groups, each with one entry listing course ids.                  *)
(***************************************************************************)
CourseKeys == {"a", "b"}

CourseNames == {"n1", "n2"}

SeqsUpTo(S, n) == UNION {[1..k -> S] : k \in 0..n}

NoCourses == [k \in {} |-> "none"]

\* the wire form of setGroups: no group, or one group named "ws" whose
\* entry lists MaxGroupIds course ids
WireGroups ==
    {<<>>} \cup {<<[name |-> "ws", ids |-> ids]>> : ids \in [1..MaxGroupIds -> CourseKeys]}

Payloads ==
    [setCourses : SeqsUpTo([key : CourseKeys, name : CourseNames], MaxCourseEntries),
     setGroups : WireGroups,
     setUserId : {"u1", "u2"},
     setConfig : {NoCourses, [k \in {"view"} |-> "tiles"]}]

\* Deserialize for Course: the fields marked serde(skip) get their default,
\* modules empty and client a StudIpClient::default() (lines 54-59)
DeserializeCourse(member) ==
    [id |-> member.key, name |-> member.name, modules |-> <<>>, client |-> "default"]

\* serde's HashMap visitor inserts the members one after the other
RECURSIVE DeserializeCourses(_)
DeserializeCourses(members) ==
    IF members = <<>> THEN NoCourses
    ELSE LET n == Len(members)
             before == DeserializeCourses(SubSeq(members, 1, n - 1))
             last == members[n]
         IN [k \in DOMAIN before \cup {last.key} |->
                IF k = last.key THEN DeserializeCourse(last) ELSE before[k]]

\* serde_json::from_str::<MyCourses> (lines 138-150, 176)
DeserializeMyCourses(payload) ==
    [courses |-> DeserializeCourses(payload.setCourses),
     set_groups |-> payload.setGroups,
     user_id |-> payload.setUserId,
     config |-> payload.setConfig,
     client |-> "default"]

\* "Copy api handle to courses" (lines 179-181)
CopyClient(new, client) ==
    [new EXCEPT !.courses = [k \in DOMAIN new.courses |->
                                [new.courses[k] EXCEPT !.client = client]]]

\* *self = new_my_courses (line 182)
AssignSelfMerging(self, new) ==
    [new EXCEPT !.courses = [k \in DOMAIN self.courses \cup DOMAIN new.courses |->
                                IF k \in DOMAIN new.courses THEN new.courses[k]
                                ELSE self.courses[k]]]

AssignSelf(self, new) == new

\* MyCourses::from_client (lines 154-162)
FromClient(client) ==
    [courses |-> NoCourses, set_groups |-> <<>>, user_id |-> "", config |-> NoCourses,
     client |-> client]

NoResponse == [kind |-> "none", payload |-> <<>>]

InitMyCourses ==
    /\ mc = FromClient("session")
    /\ mcPc = "idle"
    /\ mcResp = NoResponse
    /\ mcSentVia = "none"
    /\ mcDropped = FALSE

\* self.client.get(MY_COURSES_URL).send() (line 168)
MyCoursesQuerySend ==
    /\ mcPc = "idle"
    /\ mcPc' = "sent"
    /\ mcSentVia' = mc.client
    /\ mcResp' = NoResponse
    /\ UNCHANGED <<mc, mcDropped>>
    /\ UNCHANGED <<regVars, rateVars, opVars, fnVars, objVars>>

\* a query that empties the aggregate before it returns its error
MyCoursesQueryErrorClearing(kind) ==
    /\ mcPc = "sent"
    /\ mcPc' = "idle"
    /\ mcResp' = [kind |-> kind, payload |-> <<>>]
    /\ mc' = FromClient(mc.client)
    /\ UNCHANGED <<mcSentVia, mcDropped>>
    /\ UNCHANGED <<regVars, rateVars, opVars, fnVars, objVars>>

\* the query returns an error: the transport fails (lines 168-169), the
\* script element is missing (line 173) or its text is not a MyCoursesData
\* document (lines 176-177)
MyCoursesQueryError(kind) ==
    /\ mcPc = "sent"
    /\ mcPc' = "idle"
    /\ mcResp' = [kind |-> kind, payload |-> <<>>]
    /\ UNCHANGED <<mc, mcSentVia, mcDropped>>
    /\ UNCHANGED <<regVars, rateVars, opVars, fnVars, objVars>>

\* the page carries the payload: lines 176-183
MyCoursesQueryOk(payload) ==
    /\ mcPc = "sent"
    /\ mcPc' = "idle"
    /\ mcResp' = [kind |-> "ok", payload |-> payload]
    /\ mc' = AssignSelf(mc, CopyClient(DeserializeMyCourses(payload), mc.client))
    /\ mcDropped' = (\E k \in DOMAIN mc.courses : k \notin DOMAIN mc'.courses)
    /\ UNCHANGED mcSentVia
    /\ UNCHANGED <<regVars, rateVars, opVars, fnVars, objVars>>

(***************************************************************************)
(* Part 3: the request gate of StudIpClient (lib.rs lines 286-357).        *)
(*                                                                         *)
(* Time is counted in ticks of the system clock, which is taken to advance *)
(* monotonically; UNIX_EPOCH is 0.  A StudIpClient holds a RefCell and is  *)
(* used from one thread: its calls do not overlap.                         *)
(***************************************************************************)
UNIX_EPOCH == 0

\* last_request_time.elapsed().unwrap_or(Duration::from_secs(0)) (line 317)
Elapsed(last, t) == IF t >= last THEN t - last ELSE 0

\* how long before_request sleeps (lines 318-326): not at all when more
\* than max_speed has elapsed, else for the remaining time
WaitTimeNone(elapsed, max_speed) == 0

WaitTime(elapsed, max_speed) ==
    IF elapsed > max_speed THEN 0 ELSE max_speed - elapsed

InitRate ==
    /\ now = MaxInterval + 1
    /\ last_request_time = UNIX_EPOCH
    /\ request_max_speed = 0
    /\ rlPc = "unbuilt"
    /\ wakeAt = 0
    /\ wait_time = 0
    /\ prevBuilt = UNIX_EPOCH
    /\ nBuilt = 0

\* StudIpClientBuilder::request_max_speed and build (lines 229-232, 265-273)
BuildClient(max_time_between) ==
    /\ rlPc = "unbuilt"
    /\ rlPc' = "idle"
    /\ request_max_speed' = max_time_between
    /\ last_request_time' = UNIX_EPOCH
    /\ UNCHANGED <<now, wakeAt, wait_time, prevBuilt, nBuilt>>
    /\ UNCHANGED <<regVars, mcVars, opVars, fnVars, objVars>>

\* the clock advances
Tick ==
    /\ now < MaxTime
    /\ now' = now + 1
    /\ UNCHANGED <<last_request_time, request_max_speed, rlPc, wakeAt, wait_time,
                   prevBuilt, nBuilt>>
    /\ UNCHANGED <<regVars, mcVars, opVars, fnVars, objVars>>

\* get/post/put/patch/delete/head is called (line 343) and before_request
\* reads the clock (lines 316-323)
BeforeRequest ==
    /\ rlPc = "idle"
    /\ nBuilt < MaxRequests
    /\ rlPc' = "gate"
    /\ wait_time' = WaitTime(Elapsed(last_request_time, now), request_max_speed)
    /\ wakeAt' = now + wait_time'
    /\ UNCHANGED <<now, last_request_time, request_max_speed, prevBuilt, nBuilt>>
    /\ UNCHANGED <<regVars, mcVars, opVars, fnVars, objVars>>

\* the sleep, if any, is over (thread::sleep sleeps at least wait_time);
\* last_request_time is set and the request builder is constructed
\* (lines 319, 327, 344-350)
RequestBuilt ==
    /\ rlPc = "gate"
    /\ now >= wakeAt
    /\ rlPc' = "idle"
    /\ last_request_time' = now
    /\ prevBuilt' = last_request_time
    /\ nBuilt' = nBuilt + 1
    /\ UNCHANGED <<now, request_max_speed, wakeAt, wait_time>>
    /\ UNCHANGED <<regVars, mcVars, opVars, fnVars, objVars>>

(***************************************************************************)
(* Part 4: operations of a session that send requests and interpret the    *)
(* response (members.rs, search.rs, file.rs, lib.rs).  A StudIpClient is   *)
(* held in an Rc and has a RefCell, so one session's operations never      *)
(* overlap: one operation is in progress at a time.                        *)
(***************************************************************************)
NoCall == [op |-> "none"]
NoResp == [kind |-> "none"]
NoResult == [kind |-> "none"]

InitOps ==
    /\ opPc = "idle"
    /\ opCall = NoCall
    /\ opSent = <<>>
    /\ opResp = NoResp
    /\ opResult = NoResult

\* anyhow::Result: Ok(value) and Err(message); a message is the sequence of
\* the parts it was formatted from
Ok(value) == [kind |-> "ok", value |-> value]
Err(msg) == [kind |-> "err", msg |-> msg]

\* reqwest's send() failed: there is no response
TransportError == [kind |-> "transport"]

\* StudIpClient::get(url).query(&[("cid", course_id)])
Get(url, cid) == [method |-> "GET", url |-> url, cid |-> cid]

\* an operation begins: it sends its first request
OpSend(call, request) ==
    /\ opPc \in {"idle", "done"}
    /\ opCall' = call
    /\ opSent' = <<request>>
    /\ opResp' = NoResp
    /\ opResult' = NoResult
    /\ opPc' = "sent"
    /\ UNCHANGED <<regVars, mcVars, rateVars, fnVars, objVars>>

\* an operation returns
OpReturn(resp, result) ==
    /\ opResp' = resp
    /\ opResult' = result
    /\ opPc' = "done"
    /\ UNCHANGED <<opCall, opSent>>
    /\ UNCHANGED <<regVars, mcVars, rateVars, fnVars, objVars>>

(***************************************************************************)
(* Pure functions, applied to arguments drawn from bounded sets.           *)
(***************************************************************************)
NoFn == [fn |-> "none"]

InitFn ==
    /\ fnCall = NoFn
    /\ fnOut = NoResult

\* fn(args) returned out; a pure function has no state, so a behaviour
\* applies one function once
Apply(call, out) ==
    /\ fnCall = NoFn
    /\ fnCall' = call
    /\ fnOut' = out
    /\ UNCHANGED <<regVars, mcVars, rateVars, opVars, objVars>>

(***************************************************************************)
(* MembersModule::try_join_group / try_leave_group (members.rs 130-156).   *)
(***************************************************************************)
GROUPS_URL == <<"https://studip.example.com/dispatch.php/course/statusgroups">>

\* Group.id as get_groups yields it
GroupIds == {"g1", "g2", "nogroup"}

\* the course of the MembersModule
MembersCourseId == "c1"

\* status codes a response may carry
StatusCodes == {100, 199, 200, 204, 299, 300, 304, 403, 404, 500}

\* a status check that lets redirections pass as well
IsSuccessOrRedirect(status) == 200 <= status /\ status < 400

\* StatusCode::is_success
IsSuccess(status) == 200 <= status /\ status < 300

TryJoinGroupSend(g) ==
    OpSend([op |-> "try_join_group", group |-> g],
           Get(GROUPS_URL \o <<"/join/", g>>, MembersCourseId))

TryLeaveGroupSend(g) ==
    OpSend([op |-> "try_leave_group", group |-> g],
           Get(GROUPS_URL \o <<"/leave/", g>>, MembersCourseId))

\* send()? failed: the error of the transport is returned
GroupTransportError ==
    /\ opPc = "sent"
    /\ opCall.op \in {"try_join_group", "try_leave_group"}
    /\ OpReturn(TransportError, Err(<<"transport">>))

\* the response arrived: its status alone decides
GroupResponse(status) ==
    /\ opPc = "sent"
    /\ opCall.op \in {"try_join_group", "try_leave_group"}
    /\ OpReturn([kind |-> "http", status |-> status],
                IF IsSuccess(status)
                THEN Ok(<<>>)
                ELSE Err(<<IF opCall.op = "try_join_group"
                           THEN "Could not join group. Status code: "
                           ELSE "Could not leave group. Status code: ",
                           status>>))

(***************************************************************************)
(* SearchFilter and its serialization (search.rs 11-90).  A string is the  *)
(* sequence of its tokens; a serialized map is the sequence of its entries *)
(* in the order they were written.                                         *)
(***************************************************************************)
None == [some |-> FALSE, v |-> <<>>]
Some(v) == [some |-> TRUE, v |-> v]

\* unix_timestamp values of FilterSemester::Specific
Timestamps == {0, 7, 10, 2024}

FilterSemesters ==
    {[variant |-> "All", unix_timestamp |-> 0],
     [variant |-> "Future", unix_timestamp |-> 0]}
    \cup {[variant |-> "Specific", unix_timestamp |-> ts] : ts \in Timestamps}

\* seminar_type_id and institute_id
OptionIds == {None, Some(<<"1">>), Some(<<"2", "1", "2", "3">>)}

SearchFilters ==
    {[variant |-> "All", semester |-> sem,
      seminar_type_id |-> None, institute_id |-> None] : sem \in FilterSemesters}
    \cup {[variant |-> "Courses", semester |-> sem,
           seminar_type_id |-> st, institute_id |-> inst] :
             sem \in FilterSemesters, st \in OptionIds, inst \in OptionIds}
    \cup {[variant |-> v, semester |-> [variant |-> "Future", unix_timestamp |-> 0],
           seminar_type_id |-> None, institute_id |-> None] :
             v \in {"Users", "Institutions", "Messages"}}

\* SearchFilter::default()
DefaultSearchFilter ==
    [variant |-> "All", semester |-> [variant |-> "Future", unix_timestamp |-> 0],
     seminar_type_id |-> None, institute_id |-> None]

Digit(d) == <<"0", "1", "2", "3", "4", "5", "6", "7", "8", "9">>[d + 1]

\* u64::to_string
RECURSIVE U64ToString(_)
U64ToString(n) ==
    IF n < 10 THEN <<Digit(n)>>
    ELSE U64ToString(n \div 10) \o <<Digit(n % 10)>>

\* impl Serialize for FilterSemester
SerializeSemester(sem) ==
    CASE sem.variant = "All" -> <<>>
      [] sem.variant = "Future" -> <<"future">>
      [] sem.variant = "Specific" -> U64ToString(sem.unix_timestamp)

Entry(key, value) == [key |-> key, value |-> value]

\* if let Some(v) = opt { map.serialize_entry(key, v) }
EntryIfSome(key, opt) == IF opt.some THEN <<Entry(key, opt.v)>> ELSE <<>>

\* a serialization that writes institute before seminar_type
SerializeFilterSwapped(filter) ==
    <<Entry("category", <<"GlobalSearchCourses">>),
      Entry("semester", SerializeSemester(filter.semester))>>
    \o EntryIfSome("institute", filter.institute_id)
    \o EntryIfSome("seminar_type", filter.seminar_type_id)

\* impl Serialize for SearchFilter
SerializeFilter(filter) ==
    CASE filter.variant = "All" ->
            <<Entry("category", <<"show_all_categories">>),
              Entry("semester", SerializeSemester(filter.semester))>>
      [] filter.variant = "Courses" ->
            <<Entry("category", <<"GlobalSearchCourses">>),
              Entry("semester", SerializeSemester(filter.semester))>>
            \o EntryIfSome("seminar_type", filter.seminar_type_id)
            \o EntryIfSome("institute", filter.institute_id)
      [] filter.variant = "Users" ->
            <<Entry("category", <<"GlobalSearchUsers">>)>>
      [] filter.variant = "Institutions" ->
            <<Entry("category", <<"GlobalSearchInstitutes">>)>>
      [] filter.variant = "Messages" ->
            <<Entry("category", <<"GlobalSearchMessages">>)>>

\* the compact JSON text of a string
JsonString(s) == <<"\"">> \o s \o <<"\"">>

\* the compact JSON text of a map of strings, as serde_json writes it
RECURSIVE JsonEntries(_)
JsonEntries(entries) ==
    IF entries = <<>> THEN <<>>
    ELSE JsonString(<<entries[1].key>>) \o <<":">> \o JsonString(entries[1].value)
         \o (IF Len(entries) > 1 THEN <<",">> ELSE <<>>)
         \o JsonEntries(Tail(entries))

\* serde_json::to_string(filter)
ToJsonString(filter) == <<"{">> \o JsonEntries(SerializeFilter(filter)) \o <<"}">>

\* serde_json::to_string applied to a filter
SerializeFilterApply(filter) ==
    Apply([fn |-> "to_string", filter |-> filter],
          [entries |-> SerializeFilter(filter), text |-> ToJsonString(filter)])

(***************************************************************************)
(* global_search (search.rs 203-229).                                      *)
(***************************************************************************)
GLOBAL_SEARCH_URL == <<"https://studip.example.com/dispatch.php/globalsearch/find">>

\* the arguments text, max_results and filter of the calls
SearchTexts == {<<"ole">>}
SearchMaxResults == {25}
SearchCallFilters ==
    {DefaultSearchFilter,
     [variant |-> "Courses", semester |-> [variant |-> "All", unix_timestamp |-> 0],
      seminar_type_id |-> Some(<<"1">>), institute_id |-> Some(<<"2", "1", "2", "3">>)]}

\* the Content-Type header of a response: absent, bytes that are not
\* visible ASCII, or a string
ContentTypes ==
    {[present |-> FALSE, ascii |-> TRUE, value |-> <<>>],
     [present |-> TRUE, ascii |-> FALSE, value |-> <<"application/json">>],
     [present |-> TRUE, ascii |-> TRUE, value |-> <<"application/json">>],
     [present |-> TRUE, ascii |-> TRUE, value |-> <<"application/json", "; charset=utf-8">>],
     [present |-> TRUE, ascii |-> TRUE, value |-> <<"text/html", "; charset=utf-8">>],
     [present |-> TRUE, ascii |-> TRUE, value |-> <<"text/plain", "; x=", "application/json">>]}

\* the keys of SearchResult (serde rename)
CategoryKeys == {"GlobalSearchCourses", "GlobalSearchUsers",
                 "GlobalSearchInstitutes", "GlobalSearchMessages"}

Whitespace == {" ", "\n"}

\* the body of a response: unreadable, or a text
SearchBodies ==
    {[readable |-> FALSE, text |-> <<>>]}
    \cup {[readable |-> TRUE, text |-> t] :
            t \in {<<"[", "]">>, <<" ", "[", "]", "\n">>, <<"[", " ", "]">>,
                   <<"{", "}">>, <<"<html>">>, <<>>}
                  \cup {<<"{", k, "}">> : k \in CategoryKeys}}

\* str::starts_with
StartsWith(s, prefix) ==
    Len(s) >= Len(prefix) /\ SubSeq(s, 1, Len(prefix)) = prefix

\* str::trim
RECURSIVE TrimStart(_)
TrimStart(s) ==
    IF s # <<>> /\ s[1] \in Whitespace THEN TrimStart(Tail(s)) ELSE s

RECURSIVE TrimEnd(_)
TrimEnd(s) ==
    IF s # <<>> /\ s[Len(s)] \in Whitespace
    THEN TrimEnd(SubSeq(s, 1, Len(s) - 1)) ELSE s

Trim(s) == TrimEnd(TrimStart(s))

\* SearchResult::default()
DefaultSearchResult ==
    [k \in CategoryKeys |-> None]

\* serde_json::from_str::<SearchResult>: whitespace between the tokens of
\* a JSON text is insignificant; an object gives the categories it has, an
\* array must have one element per field, anything else is no JSON
FromStrSearchResult(text) ==
    LET json == SelectSeq(text, LAMBDA c : c \notin Whitespace)
    IN IF json = <<"{", "}">> THEN Ok(DefaultSearchResult)
       ELSE IF Len(json) = 3 /\ json[1] = "{" /\ json[3] = "}" /\ json[2] \in CategoryKeys
       THEN Ok([k \in CategoryKeys |->
                   IF k = json[2] THEN Some(<<"category">>) ELSE None])
       ELSE Err(<<"Could not parse search response json">>)

\* no special case for the empty array
IsEmptyArrayNever(text) == FALSE

\* text.trim() == "[]"
IsEmptyArray(text) == Trim(text) = <<"[", "]">>

\* the part of global_search after send()
GlobalSearchResult(resp) ==
    IF ~IsSuccess(resp.status)
    THEN Err(<<"Could not search. Status Code: ", resp.status>>)
    ELSE IF ~resp.content_type.present
    THEN Err(<<"Expected content-type">>)
    ELSE IF ~resp.content_type.ascii
    THEN Err(<<"Cannot convert content type to sting">>)
    ELSE IF ~StartsWith(resp.content_type.value, <<"application/json">>)
    THEN Err(<<"Expected JSON. Got ContentType: ">> \o resp.content_type.value)
    ELSE IF ~resp.body.readable
    THEN Err(<<"transport">>)
    ELSE IF IsEmptyArray(resp.body.text)
    THEN Ok(DefaultSearchResult)
    ELSE FromStrSearchResult(resp.body.text)

GlobalSearchSend(text, max_results, filter) ==
    OpSend([op |-> "global_search", text |-> text, max_results |-> max_results,
            filter |-> filter],
           [method |-> "GET",
            url |-> GLOBAL_SEARCH_URL \o <<"/">> \o U64ToString(max_results),
            query |-> <<Entry("search", text), Entry("filter", ToJsonString(filter))>>])

GlobalSearchTransportError ==
    /\ opPc = "sent"
    /\ opCall.op = "global_search"
    /\ OpReturn(TransportError, Err(<<"transport">>))

GlobalSearchResponse(status, content_type, body) ==
    /\ opPc = "sent"
    /\ opCall.op = "global_search"
    /\ LET resp == [kind |-> "http", status |-> status,
                    content_type |-> content_type, body |-> body]
       IN OpReturn(resp, GlobalSearchResult(resp))

(***************************************************************************)
(* StudIp::login and login_client (lib.rs 38-102).  opSent logs the        *)
(* requests and the call of the identity provider in the order they were   *)
(* made; opResp collects what each step met.                               *)
(***************************************************************************)
HOST_URL == <<"https://studip.example.com">>
LOGIN_URL == <<"https://studip.example.com/Shibboleth.sso/Login">>
SAML_RESPONSE_URL == <<"https://studip.example.com/Shibboleth.sso/SAML2/POST">>
START_URL == <<"https://studip.example.com/dispatch.php/start">>

\* the file at creds_path: unreadable, or its text
CredsFiles ==
    {[readable |-> FALSE, text |-> <<>>],
     [readable |-> TRUE, text |-> <<"user">>],
     [readable |-> TRUE, text |-> <<"user", "\n", "password">>]}

\* str::split_once('\n') found a newline
HasNewline(text) == \E i \in 1..Len(text) : text[i] = "\n"

\* status codes of the responses during login
LoginStatusCodes == {200, 204, 403, 500}

\* what a request met: no response, or a response with a status and a page
NoResponseAtAll == [kind |-> "transport", status |-> 0, page |-> "none"]
Response(status, page) == [kind |-> "http", status |-> status, page |-> page]

\* start pages: the body cannot be read, the page has an element #login,
\* the page has none
StartPages == {"unreadable", "login_page", "start_page"}

\* what the identity provider returned
IdPResults == {[kind |-> "ok", status |-> 0, page |-> "assertion"],
               [kind |-> "err", status |-> 0, page |-> "none"]}

\* the StudIp that login returns
Session == [client |-> "session", my_courses |-> FromClient("session")]

LoginCall ==
    /\ opPc \in {"idle", "done"}
    /\ opCall' = [op |-> "login"]
    /\ opSent' = <<[method |-> "GET", url |-> HOST_URL]>>
    /\ opResp' = [kind |-> "steps", outcomes |-> <<>>]
    /\ opResult' = NoResult
    /\ opPc' = "login_cookies"
    /\ UNCHANGED <<regVars, mcVars, rateVars, fnVars, objVars>>

\* a step of login met outcome and login returns result
LoginReturn(step, outcome, result) ==
    /\ opResp' = [opResp EXCEPT !.outcomes = Append(@, [step |-> step, met |-> outcome])]
    /\ opResult' = result
    /\ opPc' = "done"
    /\ UNCHANGED <<opCall, opSent>>
    /\ UNCHANGED <<regVars, mcVars, rateVars, fnVars, objVars>>

\* a step of login met outcome and login goes on: it makes the calls in
\* requests and is then at next
LoginGoOn(step, outcome, requests, next) ==
    /\ opResp' = [opResp EXCEPT !.outcomes = Append(@, [step |-> step, met |-> outcome])]
    /\ opSent' = opSent \o requests
    /\ opPc' = next
    /\ UNCHANGED <<opCall, opResult>>
    /\ UNCHANGED <<regVars, mcVars, rateVars, fnVars, objVars>>

\* let _ = self.client.get("https://studip.example.com").send();
LoginCookies(outcome) ==
    /\ opPc = "login_cookies"
    /\ LoginGoOn("cookies", outcome, <<>>, "login_creds")

\* read_to_string(creds_path) and split_once('\n'), then the redirect request
LoginCredentials(file) ==
    /\ opPc = "login_creds"
    /\ LET outcome == [kind |-> "file", status |-> 0,
                       page |-> IF file.readable THEN "read" ELSE "unreadable"]
       IN IF ~file.readable
          THEN LoginReturn("credentials", outcome,
                           Err(<<"Could not read from creds.txt">>))
          ELSE IF ~HasNewline(file.text)
          THEN LoginReturn("credentials", outcome,
                   Err(<<"creds.txt did not have newline seperated username and password">>))
          ELSE LoginGoOn("credentials", outcome,
                         <<[method |-> "GET", url |-> LOGIN_URL]>>, "login_redirect")

\* the response to the redirect request: only its url is used
LoginRedirect(outcome) ==
    /\ opPc = "login_redirect"
    /\ IF outcome.kind = "transport"
       THEN LoginReturn("redirect", outcome, Err(<<"transport">>))
       ELSE LoginGoOn("redirect", outcome,
                      <<[method |-> "IdP::login", url |-> <<"redirected_url">>]>>,
                      "login_idp")

\* IdP::login returned
LoginIdP(outcome) ==
    /\ opPc = "login_idp"
    /\ IF outcome.kind = "err"
       THEN LoginReturn("idp", outcome, Err(<<"idp">>))
       ELSE LoginGoOn("idp", outcome,
                      <<[method |-> "POST", url |-> SAML_RESPONSE_URL]>>, "login_saml")

\* the response to the SAML POST-back
LoginSaml(outcome) ==
    /\ opPc = "login_saml"
    /\ IF outcome.kind = "transport"
       THEN LoginReturn("saml", outcome,
               Err(<<"Could not send second login request. Are the credentials incorrect?">>))
       ELSE IF ~IsSuccess(outcome.status)
       THEN LoginReturn("saml", outcome,
               Err(<<"Second login request had status code: ", outcome.status>>))
       ELSE LoginGoOn("saml", outcome,
                      <<[method |-> "GET", url |-> START_URL]>>, "login_start")

\* a probe of the start page that looks at the status only
StartPageCheckStatusOnly(outcome) ==
    IF outcome.kind = "transport" THEN Err(<<"transport">>)
    ELSE IF ~IsSuccess(outcome.status)
    THEN Err(<<"Could not access start page after login: ", outcome.status>>)
    ELSE Ok(Session)

\* the probe of the start page
StartPageCheck(outcome) ==
    IF outcome.kind = "transport" THEN Err(<<"transport">>)
    ELSE IF ~IsSuccess(outcome.status)
    THEN Err(<<"Could not access start page after login: ", outcome.status>>)
    ELSE IF outcome.page = "unreadable"
    THEN Err(<<"Could not get start page text">>)
    ELSE IF outcome.page = "login_page"
    THEN Err(<<"Failed to login, after sending SAML response to StudIP: Still on login page">>)
    ELSE Ok(Session)

\* the response to the start page request
LoginStart(outcome) ==
    /\ opPc = "login_start"
    /\ LoginReturn("start", outcome, StartPageCheck(outcome))

\* the outcomes of a request
RequestOutcomes(pages) ==
    {NoResponseAtAll} \cup {Response(st, p) : st \in LoginStatusCodes, p \in pages}

(***************************************************************************)
(* FileModule::get_root / get_folder (file.rs 41-78, 107-269).             *)
(***************************************************************************)
FILE_MODULE_URL == <<"https://studip.example.com/dispatch.php/course/files">>

\* the course of the FileModule
FilesCourseId == "c1"

\* ReferenceSource::Course(id)
Course(id) == [variant |-> "Course", id |-> id]

Digits == {"0", "1", "2", "3", "4", "5", "6", "7", "8", "9"}

DigitValue(c) == CHOOSE d \in 0..9 : Digit(d) = c

\* the value of a string of decimal digits
RECURSIVE DecimalValue(_)
DecimalValue(s) ==
    IF s = <<>> THEN 0
    ELSE 10 * DecimalValue(SubSeq(s, 1, Len(s) - 1)) + DigitValue(s[Len(s)])

\* usize::from_str: an optional +, then one digit or more, nothing else
FromStrUsize(s) ==
    LET digits == IF s # <<>> /\ s[1] = "+" THEN Tail(s) ELSE s
    IN IF digits # <<>> /\ \A i \in 1..Len(digits) : digits[i] \in Digits
       THEN Ok(DecimalValue(digits))
       ELSE Err(<<"invalid digit found in string">>)

\* author_url of a wire record: not a URL, or a URL with its query pairs
AuthorUrls ==
    {[valid |-> FALSE, query |-> <<>>],
     [valid |-> TRUE, query |-> <<>>],
     [valid |-> TRUE, query |-> <<Entry("username", <<"alice">>)>>],
     [valid |-> TRUE, query |-> <<Entry("cid", <<"c1">>), Entry("username", <<"bob">>),
                                  Entry("username", <<"eve">>)>>]}

\* get_username_from_url: the value of the first pair whose key is username
GetUsernameFromUrl(url) ==
    IF ~url.valid THEN Err(<<"relative URL without a base">>)
    ELSE LET hits == SelectSeq(url.query, LAMBDA e : e.key = "username")
         IN IF hits = <<>> THEN Err(<<"Expected username in user href">>)
            ELSE Ok(hits[1].value)

\* entries of data-files as they are on the wire (TheirFile): size and
\* downloads are strings
GoodAuthor == [valid |-> TRUE, query |-> <<Entry("username", <<"alice">>)>>]

TheirFiles ==
    {[id |-> id, size |-> <<"4", "2">>, downloads |-> <<"7">>, author_url |-> GoodAuthor] :
        id \in {"f1", "f2"}}
    \cup {[id |-> "f1", size |-> sz, downloads |-> <<"0">>, author_url |-> GoodAuthor] :
            sz \in {<<"+", "5">>, <<"-", "1">>, <<"4", "x">>, <<>>}}
    \cup {[id |-> "f1", size |-> <<"1">>, downloads |-> <<"1", ".", "5">>,
           author_url |-> GoodAuthor]}
    \cup {[id |-> "f2", size |-> <<"1">>, downloads |-> <<"3">>,
           author_url |-> [valid |-> TRUE, query |-> <<>>]]}

\* entries of data-folders as they are on the wire (TheirFolder)
TheirFolders ==
    {[id |-> "d1", object_count |-> 3, author_url |-> a] : a \in AuthorUrls}
    \cup {[id |-> "d2", object_count |-> 0, author_url |-> GoodAuthor]}

\* an attribute payload: no JSON, or a JSON array of wire records
NotJson == [json |-> FALSE, entries |-> <<>>]
JsonArray(entries) == [json |-> TRUE, entries |-> entries]

\* the page of a folder listing: no #files_table_form, or the form with
\* its attributes data-files and data-folders, each absent or a payload
NoForm == [form |-> FALSE, data_files |-> None, data_folders |-> None]

FilesPages ==
    {NoForm}
    \cup {[form |-> TRUE, data_files |-> files, data_folders |-> folders] :
            files \in {None, Some(NotJson)}
                      \cup {Some(JsonArray(e)) : e \in SeqsUpTo(TheirFiles, MaxFileEntries)},
            folders \in {None, Some(NotJson)}
                      \cup {Some(JsonArray(e)) : e \in SeqsUpTo(TheirFolders, MaxFolderEntries)}}

\* Iterator::collect::<Result<Vec<_>, _>>(): the values, or the first error
RECURSIVE CollectResults(_)
CollectResults(results) ==
    IF results = <<>> THEN Ok(<<>>)
    ELSE IF results[1].kind = "err" THEN results[1]
    ELSE LET rest == CollectResults(Tail(results))
         IN IF rest.kind = "err" THEN rest
            ELSE Ok(<<results[1].value>> \o rest.value)

\* serde: TheirFile from one element of data-files (from_str on size and
\* downloads)
DeserializeTheirFile(wire) ==
    LET size == FromStrUsize(wire.size)
        downloads == FromStrUsize(wire.downloads)
    IN IF downloads.kind = "err" THEN downloads
       ELSE IF size.kind = "err" THEN size
       ELSE Ok([id |-> wire.id, size |-> size.value, downloads |-> downloads.value,
                author_url |-> wire.author_url])

\* serde_json::from_str::<Vec<TheirFile>>
FromStrTheirFiles(payload) ==
    IF ~payload.json THEN Err(<<"expected value">>)
    ELSE CollectResults([i \in 1..Len(payload.entries) |->
                            DeserializeTheirFile(payload.entries[i])])

\* serde_json::from_str::<Vec<TheirFolder>>
FromStrTheirFolders(payload) ==
    IF ~payload.json THEN Err(<<"expected value">>)
    ELSE Ok(payload.entries)

\* the User that is the author of a file or folder
Author(username, course_id) ==
    [username |-> username, avatar_src |-> None, source |-> Course(course_id)]

\* a tagging of the author that leaves the source unspecified
FilesObjectUntagged(their, username, course_id) ==
    [id |-> their.id,
     author |-> [username |-> username, avatar_src |-> None,
                 source |-> [variant |-> "Unspecified", id |-> ""]]]

\* FilesObject { id, .., author: User { .., source: Course(course_id) } }
FilesObject(their, username, course_id) ==
    [id |-> their.id, author |-> Author(username, course_id)]

try_file_from_their(their, course_id) ==
    LET username == GetUsernameFromUrl(their.author_url)
    IN IF username.kind = "err" THEN username
       ELSE Ok([object |-> FilesObject(their, username.value, course_id),
                size |-> their.size, downloads |-> their.downloads])

try_folder_from_their(their, course_id) ==
    LET username == GetUsernameFromUrl(their.author_url)
    IN IF username.kind = "err" THEN username
       ELSE Ok([object |-> FilesObject(their, username.value, course_id),
                object_count |-> their.object_count])

\* FileModule::parse_into_folder_contents
parse_into_folder_contents(page, course_id) ==
    IF ~page.form THEN Err(<<"Could not find files table form">>)
    ELSE IF ~page.data_files.some THEN Err(<<"Could not get files">>)
    ELSE IF ~page.data_folders.some THEN Err(<<"Could not get folders">>)
    ELSE LET their_files == FromStrTheirFiles(page.data_files.v)
             their_folders == FromStrTheirFolders(page.data_folders.v)
         IN IF their_files.kind = "err" THEN their_files
            ELSE IF their_folders.kind = "err" THEN their_folders
            ELSE LET folders == CollectResults(
                                   [i \in 1..Len(their_folders.value) |->
                                       try_folder_from_their(their_folders.value[i], course_id)])
                     files == CollectResults(
                                   [i \in 1..Len(their_files.value) |->
                                       try_file_from_their(their_files.value[i], course_id)])
                 IN IF folders.kind = "err" THEN folders
                    ELSE IF files.kind = "err" THEN files
                    ELSE Ok([folders |-> folders.value, files |-> files.value])

\* folder_id of get_folder
FolderIds == {"d1"}

GetRootSend ==
    OpSend([op |-> "get_root", folder_id |-> ""],
           Get(FILE_MODULE_URL, FilesCourseId))

GetFolderSend(folder_id) ==
    OpSend([op |-> "get_folder", folder_id |-> folder_id],
           Get(FILE_MODULE_URL \o <<"/index/", folder_id>>, FilesCourseId))

\* send()? or response.text()? failed
FilesTransportError ==
    /\ opPc = "sent"
    /\ opCall.op \in {"get_root", "get_folder"}
    /\ OpReturn(TransportError, Err(<<"transport">>))

\* the page arrived and was parsed
FilesResponse(page) ==
    /\ opPc = "sent"
    /\ opCall.op \in {"get_root", "get_folder"}
    /\ OpReturn([kind |-> "page", page |-> page],
                parse_into_folder_contents(page, FilesCourseId))

(***************************************************************************)
(* MembersModule::get_members and parse_member_table (members.rs 41-61,    *)
(* 192-213).                                                               *)
(***************************************************************************)
MEMBERS_URL == <<"https://studip.example.com/dispatch.php/course/members">>

\* str::to_lowercase on the words that occur in captions and labels; a
\* token not listed has no upper-case letter
LowerOf ==
    [t \in {"Lecturers", "LECTURERS", "Dozierende", "Tutors", "Tutor*innen",
            "Studierende", "STUDENTS", "Teilnehmende",
            "Subtitle", "SUBTITLE", "Untertitel"} |->
        CASE t \in {"Lecturers", "LECTURERS"} -> "lecturers"
          [] t = "Dozierende" -> "dozierende"
          [] t = "Tutors" -> "tutors"
          [] t = "Tutor*innen" -> "tutor*innen"
          [] t = "Studierende" -> "studierende"
          [] t = "STUDENTS" -> "students"
          [] t = "Teilnehmende" -> "teilnehmende"
          [] t \in {"Subtitle", "SUBTITLE"} -> "subtitle"
          [] t = "Untertitel" -> "untertitel"]

ToLowercase(s) ==
    [i \in 1..Len(s) |-> IF s[i] \in DOMAIN LowerOf THEN LowerOf[s[i]] ELSE s[i]]

\* the text of a table's caption, None for a table without caption
Captions ==
    {None, Some(<<"Lecturers">>), Some(<<" ", "Dozierende", "\n">>),
     Some(<<"Tutors">>), Some(<<"Tutor*innen">>), Some(<<"Studierende">>),
     Some(<<"STUDENTS">>), Some(<<"Teilnehmende">>)}

\* a row of a members table: its first link ("td a"), the link's href,
\* the img in the link and its src
MemberRow(name, href) ==
    [link |-> TRUE, href |-> href, img |-> TRUE, src |-> Some(<<"avatar/", name>>),
     text |-> <<" ", name, " ">>]

HrefOf(name) == Some([valid |-> TRUE, query |-> <<Entry("username", <<name>>)>>])

MemberRows ==
    {MemberRow("alice", HrefOf("alice")),
     MemberRow("bob", HrefOf("bob")),
     \* no link in the row
     [MemberRow("carol", HrefOf("carol")) EXCEPT !.link = FALSE],
     \* a link without href
     MemberRow("carol", None),
     \* a relative href
     MemberRow("carol", Some([valid |-> FALSE, query |-> <<>>])),
     \* a href without username
     MemberRow("carol", Some([valid |-> TRUE, query |-> <<>>])),
     \* no img in the link
     [MemberRow("carol", HrefOf("carol")) EXCEPT !.img = FALSE],
     \* an img without src
     [MemberRow("carol", HrefOf("carol")) EXCEPT !.src = None]}

\* the rows ("tbody tr") of the tables of the pages
Alice == MemberRow("alice", HrefOf("alice"))
Bob == MemberRow("bob", HrefOf("bob"))

RowLists == {<<>>, <<Alice>>, <<Bob, Alice>>}

\* tables with every caption, and tables of tutors with rows of every kind
MemberTables ==
    {[caption |-> c, rows |-> rows] : c \in Captions, rows \in RowLists}
    \cup {[caption |-> Some(<<"Tutors">>), rows |-> <<r, Bob>>] : r \in MemberRows}

\* the tables of "#content table", in document order
MembersPages == SeqsUpTo(MemberTables, MaxTables)

\* get_username_from_link_element
GetUsernameFromLinkElement(row) ==
    IF ~row.href.some THEN Err(<<"Expected user link href">>)
    ELSE GetUsernameFromUrl(row.href.v)

\* the closure of filter_map in parse_member_table: the User of a row, or
\* None
ParseMemberRow(row, reference_source) ==
    IF ~row.link THEN None
    ELSE LET username == GetUsernameFromLinkElement(row)
         IN IF username.kind = "err" THEN None
            ELSE IF ~row.img THEN None
            ELSE IF ~row.src.some THEN None
            ELSE Some([display_name |-> Trim(row.text),
                       username |-> username.value,
                       avatar_src |-> row.src,
                       source |-> reference_source])

\* Iterator::filter_map(..).collect::<Vec<_>>()
RECURSIVE FilterMapRows(_, _)
FilterMapRows(rows, reference_source) ==
    IF rows = <<>> THEN <<>>
    ELSE LET user == ParseMemberRow(rows[1], reference_source)
         IN (IF user.some THEN <<user.v>> ELSE <<>>)
            \o FilterMapRows(Tail(rows), reference_source)

\* parse_member_table: it always returns Ok((caption, users))
parse_member_table(table, reference_source) ==
    Ok([caption |-> IF table.caption.some
                    THEN Some(ToLowercase(Trim(table.caption.v)))
                    ELSE None,
        users |-> FilterMapRows(table.rows, reference_source)])

(***************************************************************************)
(* get_members: the tables by caption, then the three categories.          *)
(***************************************************************************)
\* HashMap::from_iter over (caption, users): a later table replaces an
\* earlier one with the same caption
RECURSIVE CollectTables(_, _)
CollectTables(parsed, map) ==
    IF parsed = <<>> THEN map
    ELSE CollectTables(Tail(parsed),
            [c \in DOMAIN map \cup {parsed[1].caption} |->
                IF c = parsed[1].caption THEN parsed[1].users ELSE map[c]])

\* tables_members.remove(&Some(de)).or_else(|| tables_members.remove(&Some(en)))
RemoveEither(map, de, en) ==
    IF Some(<<de>>) \in DOMAIN map THEN Some(map[Some(<<de>>)])
    ELSE IF Some(<<en>>) \in DOMAIN map THEN Some(map[Some(<<en>>)])
    ELSE None

\* a policy that treats a missing category as an error
UnwrapOrFail(found) ==
    IF found.some THEN Ok(found.v) ELSE Err(<<"Could not find category">>)

\* Option::unwrap_or_default
UnwrapOrDefault(found) ==
    IF found.some THEN Ok(found.v) ELSE Ok(<<>>)

\* the part of get_members after response.text()
GetMembersResult(page, course_id) ==
    LET parsed == [i \in 1..Len(page) |->
                      parse_member_table(page[i], Course(course_id)).value]
        tables_members == CollectTables(parsed, [c \in {} |-> <<>>])
        lecturers == UnwrapOrDefault(RemoveEither(tables_members, "dozierende", "lecturers"))
        tutors == UnwrapOrDefault(RemoveEither(tables_members, "tutor*innen", "tutors"))
        students == UnwrapOrDefault(RemoveEither(tables_members, "studierende", "students"))
    IN IF lecturers.kind = "err" THEN lecturers
       ELSE IF tutors.kind = "err" THEN tutors
       ELSE IF students.kind = "err" THEN students
       ELSE Ok([lecturers |-> lecturers.value, tutors |-> tutors.value,
                students |-> students.value])

GetMembersSend ==
    OpSend([op |-> "get_members"], Get(MEMBERS_URL, MembersCourseId))

\* send()? or response.text()? failed
GetMembersTransportError ==
    /\ opPc = "sent"
    /\ opCall.op = "get_members"
    /\ OpReturn(TransportError, Err(<<"transport">>))

GetMembersResponse(page) ==
    /\ opPc = "sent"
    /\ opCall.op = "get_members"
    /\ OpReturn([kind |-> "page", page |-> page],
                GetMembersResult(page, MembersCourseId))

(***************************************************************************)
(* Part 5: pure functions.  Equality of File and Folder (file.rs 117-151). *)
(***************************************************************************)
\* File and Folder records that share ids and differ in other fields
EqObjects ==
    {[id |-> id, name |-> name, change_date |-> IF name = "a.pdf" THEN 1 ELSE 2,
      author |-> Author(<<"alice">>, FilesCourseId)] :
        id \in {"x1", "x2"}, name \in {"a.pdf", "b.pdf"}}

EqFiles ==
    {[object |-> o, size |-> size, downloads |-> size - 1] :
        o \in EqObjects, size \in {1, 2}}

EqFolders ==
    {[object |-> o, object_count |-> n] : o \in EqObjects, n \in {0, 3}}

\* an equality that compares every field (what derive(PartialEq) gives)
FilesObjectEqDerived(a, b) == a = b

\* impl PartialEq for FilesObject
FilesObjectEq(a, b) == a.id = b.id

\* impl PartialEq for File
FileEq(a, b) == FilesObjectEq(a.object, b.object)

\* impl PartialEq for Folder
FolderEq(a, b) == FilesObjectEq(a.object, b.object)

\* the comparisons among three records
Comparisons(eq(_, _), a, b, c) ==
    [aa |-> eq(a, a), ab |-> eq(a, b), ba |-> eq(b, a), bc |-> eq(b, c), ac |-> eq(a, c)]

FileEqApply(a, b, c) ==
    Apply([fn |-> "File::eq", a |-> a, b |-> b, c |-> c], Comparisons(FileEq, a, b, c))

FolderEqApply(a, b, c) ==
    Apply([fn |-> "Folder::eq", a |-> a, b |-> b, c |-> c], Comparisons(FolderEq, a, b, c))

(***************************************************************************)
(* strip_markings (search.rs 231-238).  A text is a sequence of tokens:    *)
(* the tags <mark> and </mark>, a line feed, and pieces of other text.     *)
(***************************************************************************)
OpenMark == "<mark>"
CloseMark == "</mark>"
LineFeed == "\n"

MarkTokens == {OpenMark, CloseMark, LineFeed, "a", "b"}

\* the inputs of test_strip_markings
StripTestInputs ==
    {<<"Mark", OpenMark, " Ole", CloseMark, " Peter">>,
     <<OpenMark, "Mark", CloseMark, " Ole ", OpenMark, "Peter", CloseMark>>,
     <<"Max Counterman">>,
     <<"John ", OpenMark, OpenMark, "Connman", CloseMark, CloseMark>>}

StripInputs == SeqsUpTo(MarkTokens, MaxTextLen) \cup StripTestInputs

\* the position of the first token t of s at or after position from, 0 if
\* there is none
FirstAt(s, t, from) ==
    IF \E k \in from..Len(s) : s[k] = t
    THEN CHOOSE k \in from..Len(s) :
            s[k] = t /\ \A l \in from..(k - 1) : s[l] # t
    ELSE 0

\* "." of the regex matches every character but the line feed
DotMatches(s, from, to) == \A k \in from..to : s[k] # LineFeed

\* <mark>(.*?)</mark> can match with its <mark> at position i: the next
\* </mark> exists and no line feed is before it
ClosedOnLine(s, i) ==
    /\ s[i] = OpenMark
    /\ FirstAt(s, CloseMark, i + 1) # 0
    /\ DotMatches(s, i + 1, FirstAt(s, CloseMark, i + 1) - 1)

\* Regex::replace_all(str, "$1$2$3") for (.*?)<mark>(.*?)</mark>(.*?):
\* the leftmost match ends with the first <mark> that is closed on its
\* line and the first </mark> after it; both tags are dropped, the text
\* before and between them is kept, and the search goes on behind
RECURSIVE ReplaceAllMarks(_)
ReplaceAllMarks(s) ==
    IF \E i \in 1..Len(s) : ClosedOnLine(s, i)
    THEN LET i == CHOOSE k \in 1..Len(s) :
                     ClosedOnLine(s, k) /\ \A l \in 1..(k - 1) : ~ClosedOnLine(s, l)
             j == FirstAt(s, CloseMark, i + 1)
         IN SubSeq(s, 1, i - 1) \o SubSeq(s, i + 1, j - 1)
            \o ReplaceAllMarks(SubSeq(s, j + 1, Len(s)))
    ELSE s

strip_markings(str) == ReplaceAllMarks(str)

StripMarkingsApply(str) ==
    Apply([fn |-> "strip_markings", str |-> str], strip_markings(str))

(***************************************************************************)
(* local_to_key (translations.rs 4-14).  The table is read from keys.csv;  *)
(* the entries here are those test_local_to_key relies on.                 *)
(***************************************************************************)
LOCAL_TO_KEY ==
    [local \in {<<"subtitle">>, <<"untertitel">>} |-> <<"SUBTITLE">>]

LabelTokens == {" ", ":", "Subtitle", "subtitle", "Untertitel", "name"}

Labels == SeqsUpTo(LabelTokens, MaxLabelLen)

\* str::trim_end_matches(':'): every ':' at the end is removed
RECURSIVE TrimEndMatches(_, _)
TrimEndMatches(s, c) ==
    IF s # <<>> /\ s[Len(s)] = c
    THEN TrimEndMatches(SubSeq(s, 1, Len(s) - 1), c) ELSE s

\* a normalization that does not trim again behind the colon
NormalizeTrimOnce(localized) ==
    ToLowercase(TrimEndMatches(Trim(localized), ":"))

\* localized.trim().trim_end_matches(':').trim().to_lowercase()
Normalize(localized) ==
    ToLowercase(Trim(TrimEndMatches(Trim(localized), ":")))

\* LOCAL_TO_KEY.get(local).map_or(localized, |s| *s)
local_to_key(localized) ==
    LET local == Normalize(localized)
    IN IF local \in DOMAIN LOCAL_TO_KEY THEN LOCAL_TO_KEY[local] ELSE localized

LocalToKeyApply(localized) ==
    Apply([fn |-> "local_to_key", localized |-> localized], local_to_key(localized))

(***************************************************************************)
(* Part 6: MembersModule::get_groups (members.rs 64-128).                  *)
(*                                                                         *)
(* The page is the sequence of its group headers, the elements selected by *)
(* "div#content article > header".  A label is a sequence of tokens: words,*)
(* the blank, the parentheses, the slash and digits.                       *)
(***************************************************************************)
\* std::panic: the call does not return
Panic(msg) == [kind |-> "panic", msg |-> msg]

\* a decimal digit that is not ASCII; \d of the regex crate matches every
\* Unicode decimal digit
ArabicThree == "U+0663"

IsRegexDigit(c) == c \in Digits \cup {ArabicThree}

\* the end of the longest run of digits that begins at position i of s
\* (i - 1 when s[i] is no digit)
DigitRunEnd(s, i) ==
    CHOOSE j \in (i - 1)..Len(s) :
        /\ \A k \in i..j : IsRegexDigit(s[k])
        /\ (j < Len(s) => ~IsRegexDigit(s[j + 1]))

NoCaptures == [matched |-> FALSE, name |-> <<>>, members |-> None, max_members |-> None]

\* " \((?P<members>\d+)(/(?P<max_members>\d+))?\)" matched right after the
\* name s[st..e]
CapturesAt(s, st, e) ==
    LET r1 == DigitRunEnd(s, e + 3)
        r2 == DigitRunEnd(s, r1 + 2)
    IN IF e + 3 > Len(s) \/ s[e + 1] # " " \/ s[e + 2] # "(" \/ r1 < e + 3 \/ r1 = Len(s)
       THEN NoCaptures
       ELSE IF s[r1 + 1] = ")"
       THEN [matched |-> TRUE, name |-> SubSeq(s, st, e),
             members |-> Some(SubSeq(s, e + 3, r1)), max_members |-> None]
       ELSE IF s[r1 + 1] = "/" /\ r2 >= r1 + 2 /\ r2 < Len(s) /\ s[r2 + 1] = ")"
       THEN [matched |-> TRUE, name |-> SubSeq(s, st, e),
             members |-> Some(SubSeq(s, e + 3, r1)),
             max_members |-> Some(SubSeq(s, r1 + 2, r2))]
       ELSE NoCaptures

\* Regex::captures for (?P<name>.+) \((?P<members>\d+)(/(?P<max_members>\d+))?\):
\* the leftmost start that has a match, and for it the longest name
RegexCaptures(s) ==
    LET fits == {p \in (1..Len(s)) \X (1..Len(s)) :
                    /\ p[1] <= p[2]
                    /\ DotMatches(s, p[1], p[2])
                    /\ CapturesAt(s, p[1], p[2]).matched}
    IN IF fits = {} THEN NoCaptures
       ELSE LET best == CHOOSE p \in fits :
                            \A q \in fits :
                                p[1] < q[1] \/ (p[1] = q[1] /\ p[2] >= q[2])
            IN CapturesAt(s, best[1], best[2])

\* a date and time of day as written in a tooltip: "dd.mm.yyyy hh:mm"
Stamp(d, m, y, h, mi) == [d |-> d, m |-> m, y |-> y, h |-> h, mi |-> mi]

DaysInMonth(m, y) ==
    IF m = 2 THEN (IF y % 4 = 0 /\ (y % 100 # 0 \/ y % 400 = 0) THEN 29 ELSE 28)
    ELSE IF m \in {4, 6, 9, 11} THEN 30 ELSE 31

\* NaiveDateTime::parse_from_str(date_str, "%d.%m.%Y %H:%M") is Ok
ParsesAsDateTime(s) ==
    /\ s.m \in 1..12
    /\ s.d \in 1..DaysInMonth(s.m, s.y)
    /\ s.h \in 0..23
    /\ s.mi \in 0..59

\* chrono::Local of the process: central European time in 2024.  The hour
\* after 02:00 of 31 March does not exist; summer time is in force from
\* then until the end of October.
InLocalGap(s) == s.y = 2024 /\ s.m = 3 /\ s.d = 31 /\ s.h = 2

LocalOffsetHours(s) ==
    IF (s.m \in 4..9) \/ (s.m = 3 /\ s.d = 31 /\ s.h >= 3) \/ (s.m = 10 /\ s.d < 27)
    THEN 2 ELSE 1

\* date.and_local_timezone(Local).earliest().map(|local| local.to_utc()),
\* for a time of day not before the offset
ToUtc(s) ==
    IF InLocalGap(s) THEN None
    ELSE Some([s EXCEPT !.h = @ - LocalOffsetHours(s)])

\* the href of the link around the info icon: absent, or a URL with its
\* path segments, or text that Url::parse rejects (a relative reference)
InfoHref(id) == Some([valid |-> TRUE, segments |-> <<"statusgroups", "info", id>>])

\* labels of test pages: "Team A (3/10)", "Team B (5)", and others
GroupLabels ==
    {<<"Team A", " ", "(", "3", "/", "1", "0", ")">>,
     <<"Team B", " ", "(", "5", ")">>,
     <<"Team", " ", "(", "1", ")", " ", "(", "3", "/", "1", "0", ")">>,
     <<"\n", " ", "Team B", " ", "(", "5", ")", " ">>,
     <<"Team C", " ", "(", "2", ")", " ", "full">>,
     <<"Team D">>,
     <<>>,
     <<"(", "3", ")">>,
     <<"Team E", " ", "(", "5", "/", ")">>,
     <<"Team F", " ", "(", ArabicThree, ")">>}

\* a header whose parts are all present
GroupHeader(label) ==
    [h1 |-> Some(label), leave |-> FALSE, info |-> TRUE, href |-> InfoHref("g1"),
     door |-> FALSE, title |-> None]

\* the title of a join-disabled icon: its text and the first part of it
\* that has the shape \d{2}\.\d{2}\.\d{4} \d{2}:\d{2}, if any
DoorTitle(text, stamp) == Some([text |-> text, stamp |-> stamp])

GroupHeaders ==
    {GroupHeader(l) : l \in GroupLabels}
    \cup {[GroupHeader(<<>>) EXCEPT !.h1 = None],
          [GroupHeader(<<"Team B", " ", "(", "5", ")">>) EXCEPT !.leave = TRUE],
          [GroupHeader(<<"Team B", " ", "(", "5", ")">>) EXCEPT !.info = FALSE],
          [GroupHeader(<<"Team B", " ", "(", "5", ")">>) EXCEPT !.href = None],
          [GroupHeader(<<"Team B", " ", "(", "5", ")">>) EXCEPT
              !.href = Some([valid |-> FALSE, segments |-> <<>>])],
          [GroupHeader(<<"Team B", " ", "(", "5", ")">>) EXCEPT !.href = InfoHref("g2")]}
    \cup {[GroupHeader(<<"Team A", " ", "(", "3", "/", "1", "0", ")">>) EXCEPT
              !.info = FALSE, !.door = TRUE, !.title = t] :
            t \in {None,
                   DoorTitle(<<"Entry", "closed">>, None),
                   DoorTitle(<<"Entry", "from">>, Some(Stamp(1, 4, 2024, 10, 0))),
                   DoorTitle(<<"Entry", "from">>, Some(Stamp(31, 3, 2024, 2, 30))),
                   DoorTitle(<<"Entry", "from">>, Some(Stamp(31, 2, 2024, 10, 0))),
                   DoorTitle(<<"Entry", "from">>, Some(Stamp(1, 4, 2024, 24, 0)))}}

GroupsPages == SeqsUpTo(GroupHeaders, MaxHeaders)

\* the closure of map in get_groups (lines 72-127): the Group of a header,
\* or the panic of the first unwrap or expect that fails
ParseGroup(header) ==
    IF ~header.h1.some THEN Panic(<<"h1: unwrap on None">>)
    ELSE
    LET raw_name == Trim(header.h1.v)
        name_captures == RegexCaptures(raw_name)
    IN
    IF ~name_captures.matched THEN Panic(<<"captures: unwrap on None">>)
    ELSE
    LET members == FromStrUsize(name_captures.members.v)
        max_members == IF name_captures.max_members.some
                       THEN FromStrUsize(name_captures.max_members.v)
                       ELSE Ok(0)
    IN
    IF members.kind = "err" THEN Panic(<<"members: unwrap on Err">>)
    ELSE IF max_members.kind = "err" THEN Panic(<<"max_members: unwrap on Err">>)
    ELSE IF header.info /\ ~header.href.some THEN Panic(<<"href: unwrap on None">>)
    ELSE IF header.info /\ ~header.href.v.valid THEN Panic(<<"Url::parse: unwrap on Err">>)
    ELSE IF header.door /\ ~header.title.some THEN Panic(<<"title: unwrap on None">>)
    ELSE IF header.door /\ header.title.v.stamp.some
            /\ ~ParsesAsDateTime(header.title.v.stamp.v)
    THEN Panic(<<"Could not parse entry_enabled_at date time">>)
    ELSE Ok([name |-> name_captures.name,
             id |-> IF header.info
                    THEN header.href.v.segments[Len(header.href.v.segments)]
                    ELSE "nogroup",
             entered |-> header.leave,
             enables_entry_at |-> IF header.door /\ header.title.v.stamp.some
                                  THEN ToUtc(header.title.v.stamp.v)
                                  ELSE None,
             members |-> members.value,
             max_members |-> max_members.value])

\* html.select(..).map(..).collect::<Vec<_>>(): the headers are parsed in
\* document order and the first panic ends the call
RECURSIVE CollectGroups(_)
CollectGroups(headers) ==
    IF headers = <<>> THEN Ok(<<>>)
    ELSE LET first == ParseGroup(headers[1])
             rest == CollectGroups(Tail(headers))
         IN IF first.kind = "panic" THEN first
            ELSE IF rest.kind = "panic" THEN rest
            ELSE Ok(<<first.value>> \o rest.value)

GetGroupsSend ==
    OpSend([op |-> "get_groups"], Get(GROUPS_URL, MembersCourseId))

\* send()? or response.text()? failed
GetGroupsTransportError ==
    /\ opPc = "sent"
    /\ opCall.op = "get_groups"
    /\ OpReturn(TransportError, Err(<<"transport">>))

GetGroupsResponse(page) ==
    /\ opPc = "sent"
    /\ opCall.op = "get_groups"
    /\ OpReturn([kind |-> "page", page |-> page], CollectGroups(page))

(***************************************************************************)
(* Part 7: news articles and their comments (news.rs).                     *)
(*                                                                         *)
(* A news box is the sequence of its article elements                      *)
(* ("article[id].studip"); a page requested by query_comments is the       *)
(* sequence of its comment elements, each inside the article it belongs to.*)
(***************************************************************************)
\* ReferenceSource (ref_source.rs 11-17)
Unspecified == [variant |-> "Unspecified", id |-> ""]
StartPage == [variant |-> "StartPage", id |-> ""]
Profile(username) == [variant |-> "Profile", id |-> username]

COURSE_URL == <<"https://studip.example.com/dispatch.php/course">>
PROFILE_URL == <<"https://studip.example.com/dispatch.php/profile">>

\* ReferenceSource::try_get_url
try_get_url(source) ==
    CASE source.variant = "Unspecified" -> None
      [] source.variant = "StartPage" -> Some([url |-> START_URL, query |-> <<>>])
      [] source.variant = "Course" ->
            Some([url |-> COURSE_URL, query |-> <<Entry("cid", <<source.id>>)>>])
      [] source.variant = "Profile" ->
            Some([url |-> PROFILE_URL, query |-> <<Entry("username", <<source.id>>)>>])

\* a link to a user: its text and its href
UserLink(name) == [text |-> <<" ", name, "\n">>, href |-> HrefOf(name)]

\* parse_simple_user
parse_simple_user(link) ==
    LET username == GetUsernameFromLinkElement(link)
    IN IF username.kind = "err" THEN username
       ELSE Ok([display_name |-> Trim(link.text), username |-> username.value,
                avatar_src |-> None, source |-> Unspecified])

\* text.trim().replace('.', "").parse::<usize>()
ParseCount(text) == FromStrUsize(RemoveAll(Trim(text), <<".">>))

\* a date as written in a news header: day, month, year and the separator
DateText(d, m, y, sep) == [d |-> d, m |-> m, y |-> y, sep |-> sep]

\* NaiveDate::parse_from_str(s, "%d.%m.%Y").or_else(|_| .. "%d/%m/%Y")
ParseNewsDate(text) ==
    IF text.sep \in {".", "/"} /\ text.m \in 1..12 /\ text.d \in 1..DaysInMonth(text.m, text.y)
    THEN Ok([d |-> text.d, m |-> text.m, y |-> text.y])
    ELSE Err(<<"input contains invalid characters">>)

NewsIds == {"n1", "n2"}

\* an article element whose parts are all present
ArticleElem(id) ==
    [id |-> id,
     title |-> Some(<<" ", "Exam", " ">>),
     author |-> Some(UserLink("alice")),
     date |-> Some(DateText(1, 4, 2024, ".")),
     visits |-> Some(<<"1", ".", "2", "0", "0">>),
     indicator |-> Some(<<"2">>),
     new |-> FALSE,
     content |-> Some(<<"<p>", "text", "</p>">>)]

ArticleElems ==
    {ArticleElem(id) : id \in NewsIds}
    \cup {[ArticleElem("n1") EXCEPT !.title = None],
          [ArticleElem("n1") EXCEPT !.author = None],
          [ArticleElem("n1") EXCEPT !.author = Some([text |-> <<"bob">>, href |-> None])],
          [ArticleElem("n1") EXCEPT !.date = None],
          [ArticleElem("n1") EXCEPT !.date = Some(DateText(1, 4, 2024, "/"))],
          [ArticleElem("n1") EXCEPT !.date = Some(DateText(1, 4, 2024, "-"))],
          [ArticleElem("n1") EXCEPT !.date = Some(DateText(31, 4, 2024, "."))],
          [ArticleElem("n1") EXCEPT !.visits = None],
          [ArticleElem("n1") EXCEPT !.visits = Some(<<"many">>)],
          [ArticleElem("n1") EXCEPT !.indicator = None],
          [ArticleElem("n1") EXCEPT !.indicator = Some(<<"new">>)],
          [ArticleElem("n1") EXCEPT !.new = TRUE],
          [ArticleElem("n1") EXCEPT !.content = None]}

NewsBoxes == SeqsUpTo(ArticleElems, MaxArticles)

NewsSources == {Unspecified, StartPage, Course("c1")}

\* the body of the loop of parse_news_box (lines 131-182): the NewsArticle
\* of one article element
ParseArticle(elem, reference_source) ==
    IF ~elem.title.some THEN Err(<<"Expected news title">>)
    ELSE IF ~elem.author.some THEN Err(<<"Expected news author">>)
    ELSE IF parse_simple_user(elem.author.v).kind = "err" THEN parse_simple_user(elem.author.v)
    ELSE IF ~elem.date.some THEN Err(<<"Expected news creation date">>)
    ELSE IF ParseNewsDate(elem.date.v).kind = "err" THEN ParseNewsDate(elem.date.v)
    ELSE IF ~elem.visits.some THEN Err(<<"Expected news visits">>)
    ELSE IF ParseCount(elem.visits.v).kind = "err" THEN ParseCount(elem.visits.v)
    ELSE IF ~elem.content.some THEN Err(<<"Expected news content">>)
    ELSE Ok([id |-> elem.id,
             source |-> reference_source,
             title |-> Trim(elem.title.v),
             html_content |-> elem.content.v,
             author |-> parse_simple_user(elem.author.v).value,
             date |-> ParseNewsDate(elem.date.v).value,
             visits |-> ParseCount(elem.visits.v).value,
             n_comments |-> IF elem.indicator.some /\ ParseCount(elem.indicator.v).kind = "ok"
                            THEN ParseCount(elem.indicator.v).value
                            ELSE 0,
             is_new |-> elem.new,
             comments |-> <<>>])

\* parse_news_box: the articles of the box in order, or the first error
parse_news_box(element, reference_source) ==
    CollectResults([i \in 1..Len(element) |-> ParseArticle(element[i], reference_source)])

\* parse_news_box is called on a box and the caller keeps one of the
\* articles returned; the model follows the first article a caller keeps
ParseNewsBox(element, reference_source, k) ==
    /\ opPc \in {"idle", "done"}
    /\ ~article.some
    /\ opCall' = [op |-> "parse_news_box", element |-> element,
                  reference_source |-> reference_source]
    /\ opSent' = <<>>
    /\ opResp' = NoResp
    /\ opResult' = parse_news_box(element, reference_source)
    /\ opPc' = "done"
    /\ article' = IF opResult'.kind = "ok" /\ k \in 1..Len(opResult'.value)
                  THEN Some(opResult'.value[k])
                  ELSE article
    /\ UNCHANGED questionnaire
    /\ UNCHANGED <<regVars, mcVars, rateVars, fnVars>>

\* a comment element: the id of the article it is in, its id attribute,
\* the text of its time element, its author link ("h1 > a") and the inner
\* markup of its .formatted-content
CommentElem(article_id, n) ==
    [article |-> article_id,
     id |-> Some(<<"newscomment-", n>>),
     time |-> Some(<<" ", "vor 3 Tagen", " ">>),
     author |-> Some(UserLink("bob")),
     content |-> Some(<<"<p>", n, "</p>">>)]

CommentElems ==
    {CommentElem("n1", "7"), CommentElem("n1", "8"), CommentElem("n2", "9")}
    \cup {[CommentElem("n1", "8") EXCEPT !.id = None],
          [CommentElem("n1", "8") EXCEPT !.id = Some(<<"newscomment-", "newscomment-", "8">>)],
          [CommentElem("n1", "8") EXCEPT !.time = None],
          [CommentElem("n1", "8") EXCEPT !.author = None],
          [CommentElem("n1", "8") EXCEPT !.author = Some([text |-> <<"bob">>, href |-> None])],
          [CommentElem("n1", "8") EXCEPT !.content = None]}

CommentPages == SeqsUpTo(CommentElems, MaxComments)

\* lines 75-97: the NewsComment of one comment element
ParseComment(elem) ==
    IF ~elem.id.some THEN Err(<<"Expected comment id">>)
    ELSE IF ~elem.time.some THEN Err(<<"Expected comment time">>)
    ELSE IF ~elem.author.some THEN Err(<<"Expected comment author a tag">>)
    ELSE IF parse_simple_user(elem.author.v).kind = "err" THEN parse_simple_user(elem.author.v)
    ELSE IF ~elem.content.some THEN Err(<<"Expected comment content">>)
    ELSE Ok([id |-> RemoveAll(elem.id.v, <<"newscomment-">>),
             author |-> parse_simple_user(elem.author.v).value,
             html_content |-> elem.content.v,
             time_since_string |-> Trim(elem.time.v)])

\* the loop of query_comments (lines 74-108): new_comments is declared in
\* the body, so every pass begins with an empty vector, pushes its comment
\* and assigns the vector to the article
RECURSIVE CommentLoop(_, _)
CommentLoop(self, elems) ==
    IF elems = <<>> THEN [self |-> self, result |-> Ok(<<>>)]
    ELSE LET comment == ParseComment(elems[1])
             pushed == <<comment.value>>
         IN IF comment.kind = "err" THEN [self |-> self, result |-> comment]
            ELSE CommentLoop([self EXCEPT !.n_comments = Len(pushed), !.comments = pushed],
                             Tail(elems))

\* html.select("article[id=\"{id}\"] .comments .comment")
SelectComments(page, id) == SelectSeq(page, LAMBDA e : e.article = id)

\* query_comments on an article whose source has no URL: try_into fails
\* before a request is made (line 60)
QueryCommentsNoUrl ==
    /\ opPc \in {"idle", "done"}
    /\ article.some
    /\ ~try_get_url(article.v.source).some
    /\ opCall' = [op |-> "query_comments", self |-> article.v]
    /\ opSent' = <<>>
    /\ opResp' = NoResp
    /\ opResult' = Err(<<"Could not construct url from reference source">>)
    /\ opPc' = "done"
    /\ UNCHANGED objVars
    /\ UNCHANGED <<regVars, mcVars, rateVars, fnVars>>

\* lines 60-64: the request for the page with the article's comments open
QueryCommentsSend ==
    /\ article.some
    /\ try_get_url(article.v.source).some
    /\ OpSend([op |-> "query_comments", self |-> article.v],
              [method |-> "GET",
               url |-> try_get_url(article.v.source).v.url,
               fragment |-> article.v.id,
               query |-> try_get_url(article.v.source).v.query
                         \o <<Entry("comments", <<"1">>), Entry("contentbox_open", <<article.v.id>>)>>])

\* send()? or response.text()? failed
QueryCommentsTransportError ==
    /\ opPc = "sent"
    /\ opCall.op = "query_comments"
    /\ OpReturn(TransportError, Err(<<"transport">>))

\* lines 66-110
QueryCommentsResponse(page) ==
    /\ opPc = "sent"
    /\ opCall.op = "query_comments"
    /\ LET done == CommentLoop(article.v, SelectComments(page, article.v.id))
       IN /\ article' = Some(done.self)
          /\ opResult' = done.result
    /\ opResp' = [kind |-> "page", page |-> page]
    /\ opPc' = "done"
    /\ UNCHANGED <<opCall, opSent, questionnaire>>
    /\ UNCHANGED <<regVars, mcVars, rateVars, fnVars>>

(***************************************************************************)
(* Part 8: Questionnaire::query_results (questionnaire.rs 59-151).         *)
(*                                                                         *)
(* The page is the sequence of its result rows ("table.default tr").  A    *)
(* row has the text of its "td[width] > strong", the text of its cell      *)
(* without width, and its voter links ("td[width] > a").                   *)
(***************************************************************************)
QUESTIONER_RESULTS_URL == <<"https://studip.example.com/dispatch.php/questionnaire/evaluate">>

\* ReferenceSource::get_additional_query_params
get_additional_query_params(source) ==
    CASE source.variant \in {"Unspecified", "StartPage"} -> <<>>
      [] source.variant = "Course" -> <<Entry("cid", <<source.id>>)>>
      [] source.variant = "Profile" -> <<Entry("username", <<source.id>>)>>

\* QuestionnaireOption as parse_questionnaire builds it (lines 228-233)
NewOption(text, value) == [text |-> text, value |-> value, n_voters |-> 0, voters |-> None]

\* questionnaires as parse_questionnaire returns them: the options sorted
\* by value, no votes known
ParsedQuestionnaires ==
    {[id |-> "q1", reference_source |-> src, total_voters |-> 3, options |-> opts] :
        src \in {Course("c1"), Unspecified},
        opts \in {<<>>, <<NewOption(<<"Yes">>, 0)>>,
                  <<NewOption(<<"Yes">>, 0), NewOption(<<"No">>, 1)>>}}

\* a voter link: its href, and the img.avatar-small in it with title and src
VoterLink(name) ==
    [href |-> HrefOf(name),
     avatar |-> Some([title |-> Some(<<name>>), src |-> Some(<<"avatar/", name>>)])]

\* the cell with the counts of a row: "(66% | 2/3)"
CountsText(percent, voters, total) ==
    <<" ", "(">> \o percent \o <<"%", " ", "|", " ">> \o voters \o <<"/">> \o total \o <<")", "\n">>

ResultRow(text, counts, voters) ==
    [text |-> Some(<<" ">> \o text), counts |-> Some(counts), voters |-> voters]

ResultRows ==
    {ResultRow(<<"Yes">>, CountsText(<<"6", "6">>, <<"2">>, <<"3">>),
               <<VoterLink("alice"), VoterLink("bob")>>),
     \* the voters are anonymous
     ResultRow(<<"Yes">>, CountsText(<<"6", "6">>, <<"2">>, <<"3">>), <<>>),
     ResultRow(<<"No">>, CountsText(<<"0">>, <<"0">>, <<"1", "2">>), <<>>),
     \* no votes counted, yet a voter link in the row
     ResultRow(<<"No">>, CountsText(<<"0">>, <<"0">>, <<"3">>), <<VoterLink("bob")>>),
     \* no strong element
     [ResultRow(<<"Yes">>, CountsText(<<"0">>, <<"0">>, <<"3">>), <<>>) EXCEPT !.text = None],
     \* counts that the pattern does not match
     ResultRow(<<"Yes">>, <<"(", "2", "/", "3", ")">>, <<>>),
     \* a count in digits that are not ASCII
     ResultRow(<<"Yes">>, CountsText(<<"6", "6">>, <<ArabicThree>>, <<"3">>), <<>>),
     \* a voter link without the avatar image
     ResultRow(<<"Maybe">>, CountsText(<<"3", "3">>, <<"1">>, <<"3">>),
               <<[VoterLink("alice") EXCEPT !.avatar = None]>>)}

ResultPages == SeqsUpTo(ResultRows, MaxRows)

\* Regex::captures for \(\d+% \| (?P<voters>\d+)/(?P<total_voters>\d+)\)
\* with its "(" at position p of s
CountsAt(s, p) ==
    LET r0 == DigitRunEnd(s, p + 1)
        r1 == DigitRunEnd(s, r0 + 5)
        r2 == DigitRunEnd(s, r1 + 2)
    IN IF /\ p <= Len(s) /\ s[p] = "("
          /\ r0 >= p + 1 /\ r0 + 4 <= Len(s)
          /\ SubSeq(s, r0 + 1, r0 + 4) = <<"%", " ", "|", " ">>
          /\ r1 >= r0 + 5 /\ r1 < Len(s) /\ s[r1 + 1] = "/"
          /\ r2 >= r1 + 2 /\ r2 < Len(s) /\ s[r2 + 1] = ")"
       THEN Some([voters |-> SubSeq(s, r0 + 5, r1), total_voters |-> SubSeq(s, r1 + 2, r2)])
       ELSE None

\* the leftmost match
CountsCaptures(s) ==
    IF \E p \in 1..Len(s) : CountsAt(s, p).some
    THEN CountsAt(s, CHOOSE p \in 1..Len(s) :
                        CountsAt(s, p).some /\ \A q \in 1..(p - 1) : ~CountsAt(s, q).some)
    ELSE None

\* lines 125-143: the User of one voter link
ParseVoter(link) ==
    LET username == GetUsernameFromLinkElement(link)
    IN IF username.kind = "err" THEN username
       ELSE IF ~link.avatar.some THEN Err(<<"Expected avatar">>)
       ELSE IF ~link.avatar.v.title.some THEN Err(<<"Expected avatar display name">>)
       ELSE IF ~link.avatar.v.src.some THEN Err(<<"Expected avatar src">>)
       ELSE Ok([username |-> username.value,
                display_name |-> link.avatar.v.title.v,
                avatar_src |-> link.avatar.v.src,
                source |-> Unspecified])

\* a policy that stores the row's voters also when there are none
StoreVotersAlways(old, found_voters) == Some(found_voters)

\* lines 144-146: what the option's voters become once the row's voters
\* have been collected
StoreVoters(old, found_voters) ==
    IF found_voters # <<>> THEN Some(found_voters) ELSE old

\* lines 81-88: an option is pushed when the row's index is past the end
PushMissing(options, i) ==
    IF i >= Len(options) THEN Append(options, NewOption(<<>>, i)) ELSE options

\* one pass of the loop over the rows (lines 79-148), i counted from 0:
\* the questionnaire after the pass and Ok, or the error that ended it
\* with what the pass had assigned before
RowPass(self, i, row) ==
    LET pushed == [self EXCEPT !.options = PushMissing(@, i)]
    IN
    IF ~row.text.some THEN [self |-> pushed, result |-> Err(<<"Expected option text">>)]
    ELSE IF ~row.counts.some THEN [self |-> pushed, result |-> Err(<<"Expected option text">>)]
    ELSE
    LET captures == CountsCaptures(Trim(row.counts.v))
    IN
    IF ~captures.some THEN [self |-> pushed, result |-> Err(<<"Expected voters">>)]
    ELSE
    LET n_voters == FromStrUsize(captures.v.voters)
        n_total_voters == FromStrUsize(captures.v.total_voters)
    IN
    IF n_voters.kind = "err" THEN [self |-> pushed, result |-> n_voters]
    ELSE IF n_total_voters.kind = "err" THEN [self |-> pushed, result |-> n_total_voters]
    ELSE
    LET counted == [pushed EXCEPT !.options[i + 1].text = Trim(row.text.v),
                                  !.options[i + 1].n_voters = n_voters.value,
                                  !.total_voters = n_total_voters.value]
        found_voters == CollectResults([k \in 1..Len(row.voters) |-> ParseVoter(row.voters[k])])
    IN
    IF n_voters.value = 0 THEN [self |-> counted, result |-> Ok(<<>>)]
    ELSE IF found_voters.kind = "err" THEN [self |-> counted, result |-> found_voters]
    ELSE [self |-> [counted EXCEPT !.options[i + 1].voters = StoreVoters(@, found_voters.value)],
          result |-> Ok(<<>>)]

\* the loop: the passes in row order until one fails
RECURSIVE RowLoop(_, _, _)
RowLoop(self, rows, i) ==
    IF i >= Len(rows) THEN [self |-> self, result |-> Ok(<<>>)]
    ELSE LET pass == RowPass(self, i, rows[i + 1])
         IN IF pass.result.kind = "err" THEN pass
            ELSE RowLoop(pass.self, rows, i + 1)

\* parse_questionnaire returns a questionnaire, which the caller keeps
ParseQuestionnaire(parsed) ==
    /\ opPc \in {"idle", "done"}
    /\ opCall' = [op |-> "parse_questionnaire"]
    /\ opSent' = <<>>
    /\ opResp' = NoResp
    /\ opResult' = Ok(parsed)
    /\ opPc' = "done"
    /\ questionnaire' = Some(parsed)
    /\ UNCHANGED article
    /\ UNCHANGED <<regVars, mcVars, rateVars, fnVars>>

\* lines 61-68: the request to the evaluation endpoint
QueryResultsSend ==
    /\ questionnaire.some
    /\ OpSend([op |-> "query_results", self |-> questionnaire.v],
              [method |-> "GET",
               url |-> QUESTIONER_RESULTS_URL \o <<"/", questionnaire.v.id>>,
               query |-> get_additional_query_params(questionnaire.v.reference_source),
               header |-> Entry("X-Requested-With", <<"XMLHttpRequest">>)])

\* send()? or response.text()? failed
QueryResultsTransportError ==
    /\ opPc = "sent"
    /\ opCall.op = "query_results"
    /\ OpReturn(TransportError, Err(<<"transport">>))

\* lines 70-150
QueryResultsResponse(page) ==
    /\ opPc = "sent"
    /\ opCall.op = "query_results"
    /\ LET done == RowLoop(questionnaire.v, page, 0)
       IN /\ questionnaire' = Some(done.self)
          /\ opResult' = done.result
    /\ opResp' = [kind |-> "page", page |-> page]
    /\ opPc' = "done"
    /\ UNCHANGED <<opCall, opSent, article>>
    /\ UNCHANGED <<regVars, mcVars, rateVars, fnVars>>

InitObjects ==
    /\ article = None
    /\ questionnaire = None

(***************************************************************************)
(* SetGroup::get_courses and MyCourses::get_courses_by_set_group_name      *)
(* (course.rs 96-124, 203-208).  A set group is its name and its entries,  *)
(* each entry the list of its course ids; a returned `&mut Course` is      *)
(* modelled by the key of the HashMap slot it borrows.                     *)
(***************************************************************************)
IdLists == [1..MaxGroupIds -> CourseKeys]

SetGroupNames == {"ws", "ss"}

\* the set groups handed to get_courses
SetGroups == [name : {"ws"}, entries : SeqsUpTo(IdLists, MaxGroupEntries)]

\* the set groups of an aggregate: one entry each, as observed (line 101),
\* whose first id comes again after another
ListedGroups ==
    [name : SetGroupNames, entries : {<<<<k, j, k>>>> : k \in CourseKeys, j \in CourseKeys}]

\* the courses mapping: any of the course keys may be absent
CourseMaps ==
    {[k \in keys |-> [id |-> k, name |-> "n1", modules |-> <<>>, client |-> "session"]] :
        keys \in SUBSET CourseKeys}

\* .flat_map(|entry| entry.ids.iter()) (line 112)
RECURSIVE FlatMapIds(_)
FlatMapIds(entries) ==
    IF entries = <<>> THEN <<>>
    ELSE Head(entries) \o FlatMapIds(Tail(entries))

\* an adaptor that lets every id through
UniqueNot(ids) == ids

\* itertools' .unique() (line 113): an element passes the first time it is
\* seen
Unique(ids) ==
    LET marked == [i \in DOMAIN ids |->
                      [id |-> ids[i], first |-> \A j \in 1..(i - 1) : ids[j] # ids[i]]]
        kept == SelectSeq(marked, LAMBDA e : e.first)
    IN [i \in DOMAIN kept |-> kept[i].id]

\* .filter_map(|id| courses.get_mut(id)...) and the re-borrow (lines
\* 114-123): the slots of the ids that are keys of the mapping
Slots(uniq, courses) == SelectSeq(uniq, LAMBDA id : id \in DOMAIN courses)

\* SetGroup::get_courses (lines 109-124)
get_courses(self, courses) ==
    Slots(Unique(FlatMapIds(self.entries)), courses)

\* MyCourses::get_courses_by_set_group_name (lines 203-208)
get_courses_by_set_group_name(self, set_group_name) ==
    LET named == {i \in DOMAIN self.set_groups :
                     self.set_groups[i].name = set_group_name}
    IN IF named = {} THEN <<>>
       ELSE LET first == CHOOSE i \in named : \A j \in named : i <= j
            IN get_courses(self.set_groups[first], self.courses)

GetCoursesApply ==
    /\ fnCall = NoFn
    /\ \E self \in SetGroups, courses \in CourseMaps :
          Apply([fn |-> "get_courses", self |-> self, courses |-> courses],
                get_courses(self, courses))

GetCoursesBySetGroupNameApply ==
    /\ fnCall = NoFn
    /\ \E set_groups \in SeqsUpTo(ListedGroups, MaxSetGroups), courses \in CourseMaps,
          set_group_name \in SetGroupNames \cup {"none"} :
            LET self == [courses |-> courses, set_groups |-> set_groups]
            IN Apply([fn |-> "get_courses_by_set_group_name", self |-> self,
                      set_group_name |-> set_group_name],
                     get_courses_by_set_group_name(self, set_group_name))

(***************************************************************************)
(* Specifications.                                                         *)
(***************************************************************************)
Init == InitRegistry /\ InitMyCourses /\ InitRate /\ InitOps /\ InitFn /\ InitObjects

\* one step of thread t in register_course_module or query_modules; tls
\* are the navigation fragments the portal may send
RegistryStep(t, tls) ==
    \/ \E M \in RegistrableTypes : RegisterCall(t, M)
    \/ RegLock(t)
    \/ RegInsert(t)
    \/ QueryCall(t)
    \/ GetOrInit(t)
    \/ QueryLock(t)
    \/ QueryTransportError(t)
    \/ \E tl \in tls : QueryResponse(t, tl)
    \/ QueryParse(t)

\* concurrent use of the registry by NThreads threads, each with its course
NextRegistry ==
    \E t \in Threads : RegistryStep(t, ConcTabLists)

SpecRegistry == Init /\ [][NextRegistry]_vars

\* one thread, one course, all navigation fragments up to MaxTabs tabs,
\* and lookups by kind
NextDiscovery ==
    \/ RegistryStep(1, TabLists(MaxTabs))
    \/ \E M \in Types : GetModule(1, M)
    \/ ReleaseModule(1)

SpecDiscovery == Init /\ [][NextDiscovery]_vars

\* the aggregate of one session, refreshed again and again
NextMyCourses ==
    \/ MyCoursesQuerySend
    \/ \E kind \in {"transport", "no_script", "bad_json"} : MyCoursesQueryError(kind)
    \/ \E payload \in Payloads : MyCoursesQueryOk(payload)

SpecMyCourses == Init /\ [][NextMyCourses]_vars

\* the payloads of the refreshes that run beside a discovery: no course or
\* one, no set group
RefreshPayloads ==
    {p \in Payloads :
        /\ Len(p.setCourses) <= 1
        /\ p.setGroups = <<>>
        /\ p.setUserId = "u1"
        /\ p.setConfig = NoCourses}

\* one caller that refreshes its aggregate and discovers the modules of a
\* course, in any order
NextRefresh ==
    \/ MyCoursesQuerySend
    \/ \E kind \in {"transport", "no_script", "bad_json"} : MyCoursesQueryError(kind)
    \/ \E payload \in RefreshPayloads : MyCoursesQueryOk(payload)
    \/ RegistryStep(1, ConcTabLists)

SpecRefresh == Init /\ [][NextRefresh]_vars

\* one client's request gate under a ticking clock
NextRate ==
    \/ \E d \in 0..MaxInterval : BuildClient(d)
    \/ Tick
    \/ BeforeRequest
    \/ RequestBuilt

SpecRate == Init /\ [][NextRate]_vars

\* global_search and login of one session, one after the other
NextOps ==
    \/ \E text \in SearchTexts, max_results \in SearchMaxResults,
          filter \in SearchCallFilters : GlobalSearchSend(text, max_results, filter)
    \/ GlobalSearchTransportError
    \/ \E status \in StatusCodes, content_type \in ContentTypes,
          body \in SearchBodies : GlobalSearchResponse(status, content_type, body)
    \/ LoginCall
    \/ \E outcome \in RequestOutcomes({"page"}) : LoginCookies(outcome)
    \/ \E file \in CredsFiles : LoginCredentials(file)
    \/ \E outcome \in RequestOutcomes({"page"}) : LoginRedirect(outcome)
    \/ \E outcome \in IdPResults : LoginIdP(outcome)
    \/ \E outcome \in RequestOutcomes({"page"}) : LoginSaml(outcome)
    \/ \E outcome \in RequestOutcomes(StartPages) : LoginStart(outcome)

SpecOps == Init /\ [][NextOps]_vars

\* the operations of the MembersModule of one course, one after the other
NextMembers ==
    \/ \E g \in GroupIds : TryJoinGroupSend(g)
    \/ \E g \in GroupIds : TryLeaveGroupSend(g)
    \/ GroupTransportError
    \/ \E status \in StatusCodes : GroupResponse(status)
    \/ GetMembersSend
    \/ GetMembersTransportError
    \/ \E page \in MembersPages : GetMembersResponse(page)
    \/ GetGroupsSend
    \/ GetGroupsTransportError
    \/ \E page \in GroupsPages : GetGroupsResponse(page)

SpecMembers == Init /\ [][NextMembers]_vars

\* the folder listings of the FileModule of one course, one after the other
NextFiles ==
    \/ GetRootSend
    \/ \E folder_id \in FolderIds : GetFolderSend(folder_id)
    \/ FilesTransportError
    \/ \E page \in FilesPages : FilesResponse(page)

SpecFiles == Init /\ [][NextFiles]_vars

\* the pure functions, applied to arguments of bounded size
NextPure ==
    \/ \E filter \in SearchFilters : SerializeFilterApply(filter)
    \/ \E a, b, c \in EqFiles : FileEqApply(a, b, c)
    \/ \E a, b, c \in EqFolders : FolderEqApply(a, b, c)
    \/ \E str \in StripInputs : StripMarkingsApply(str)
    \/ \E localized \in Labels : LocalToKeyApply(localized)

SpecPure == Init /\ [][NextPure]_vars

\* the courses of a set group, asked for once
NextSetGroups ==
    \/ GetCoursesApply
    \/ GetCoursesBySetGroupNameApply

SpecSetGroups == Init /\ [][NextSetGroups]_vars

\* news boxes parsed and the comments of an article queried, again and again
NextNews ==
    \/ \E element \in NewsBoxes, reference_source \in NewsSources,
          k \in 1..MaxArticles : ParseNewsBox(element, reference_source, k)
    \/ QueryCommentsNoUrl
    \/ QueryCommentsSend
    \/ QueryCommentsTransportError
    \/ \E page \in CommentPages : QueryCommentsResponse(page)

SpecNews == Init /\ [][NextNews]_vars

\* the results of one questionnaire queried again and again
NextQuestionnaire ==
    \/ \E parsed \in ParsedQuestionnaires : ParseQuestionnaire(parsed)
    \/ QueryResultsSend
    \/ QueryResultsTransportError
    \/ \E page \in ResultPages : QueryResultsResponse(page)

SpecQuestionnaire == Init /\ [][NextQuestionnaire]_vars

(***************************************************************************)
(* Claims about the registry and discovery.                                *)
(***************************************************************************)
\* threads inside query_modules that have returned from get_or_init
PastGuard == {t \in Threads : pc[t] \in {"q_lock", "q_fetch", "q_parse"}}

DefaultNames == {NameOf("FileModule"), NameOf("MembersModule")}

CustomNames == {NameOf(M) : M \in CustomTypes}

\* C1: however many callers run query_modules concurrently,
\* register_default_course_modules is entered at most once, it has run
\* exactly once for every caller that is past the guard, and afterwards the registry holds, apart from names registered
\* by explicit register_course_module calls, exactly the default names
\* (the same set as for a single caller).
C1_DefaultsRegisteredOnce ==
    /\ initRuns <= 1
    /\ \A t \in Threads :
          t \in PastGuard => (initRuns = 1 /\ once = "done")
    /\ once = "done" => (DOMAIN registry) \ CustomNames = DefaultNames

\* C1 witness: every thread is inside query_modules past the guard at the
\* same time, the defaults having been registered once.
C1_Witness ==
    /\ PastGuard = Threads
    /\ NThreads >= 2
    /\ initRuns = 1
    /\ DefaultNames \subseteq DOMAIN registry

\* C2: a register_course_module call that completes leaves the registry
\* mapping its name to its constructor (inserted when absent, overwritten
\* when present) and every other name as it was; and the registry changes
\* in no other way, so under any interleaving each name maps to the
\* constructor of the last completed register call for it.
C2_LastWriterWins ==
    [][ /\ \A t \in Threads :
              (pc[t] = "reg_insert" /\ pc'[t] # "reg_insert") =>
                  /\ DOMAIN registry' = DOMAIN registry \cup {NameOf(arg[t])}
                  /\ registry'[NameOf(arg[t])] = arg[t]
                  /\ \A n \in DOMAIN registry :
                        n # NameOf(arg[t]) => registry'[n] = registry[n]
        /\ registry' # registry =>
              \E t \in Threads : pc[t] = "reg_insert" /\ pc'[t] # "reg_insert"
      ]_vars

\* C2 witness: an entry was overwritten: a course still holds a module built
\* by the constructor WikiA that was registered under "wiki" when it was
\* discovered, and the registry now maps "wiki" to WikiB.
C2_Witness ==
    /\ MapGet(registry, <<"wiki">>) = "WikiB"
    /\ \E t \in Threads : \E k \in 1..Len(modules[t]) : modules[t][k].kind = "WikiA"

\* C3 (as claimed): when a discovery completes on a fragment that contains
\* the tab "nav_course_" + N for a registered name N with constructor C, the
\* course's modules contain exactly one instance built by C and bound to
\* the course's id.
C3_ExactlyOneInstancePerRegisteredTab ==
    [][ \A t \in Threads :
          (pc[t] = "q_parse" /\ pc'[t] = "idle") =>
              \A n \in DOMAIN registry :
                  (\E i \in 1..Len(tabs[t]) : tabs[t][i] = TabWithId(TAB_PREFIX \o n)) =>
                      Cardinality({k \in 1..Len(modules'[t]) :
                          modules'[t][k] = NewModule(registry[n], CourseId(t))}) = 1
      ]_vars

\* the tabs of tl whose candidate name (as the code computes it) is registered
RegisteredTabs(tl, reg) ==
    {i \in 1..Len(tl) : tl[i].has_id /\ ModuleNameOfTab(tl[i].id) \in DOMAIN reg}

\* C4 (as claimed): whatever fragment the portal returned, processing it does
\* not fail, and the modules stored are no more than the tabs with a
\* registered name: a tab without a registered name (a tab without an id has
\* none) contributes no module.
C4_UnknownTabsSkipped ==
    [][ \A t \in Threads :
          (pc[t] = "q_parse" /\ pc'[t] # "q_parse") =>
              /\ pc'[t] = "idle"
              /\ Len(modules'[t]) = Cardinality(RegisteredTabs(tabs[t], registry))
      ]_vars

\* the i-th smallest element of a finite set of numbers
Nth(S, k) == CHOOSE i \in S : Cardinality({j \in S : j <= i}) = k

\* C5: modules is empty at first; modules changes only when a query_modules
\* call succeeds, and then, whatever it held before, it becomes exactly the
\* instances matched by that call's tabs, one per tab with a registered
\* name, in tab order.
C5_ModulesReplaced ==
    /\ \A t \in Threads : modules[t] = <<>>
    /\ [][ \A t \in Threads :
             /\ (pc[t] = "q_parse" /\ pc'[t] = "idle") =>
                   LET hits == RegisteredTabs(tabs[t], registry)
                   IN /\ Len(modules'[t]) = Cardinality(hits)
                      /\ \A k \in 1..Len(modules'[t]) :
                            modules'[t][k] =
                                NewModule(registry[ModuleNameOfTab(tabs[t][Nth(hits, k)].id)],
                                          CourseId(t))
             /\ modules'[t] # modules[t] => (pc[t] = "q_parse" /\ pc'[t] = "idle")
         ]_vars

\* C5 witness: a successful discovery has replaced a non-empty result by a
\* result of one module.
C5_Witness ==
    /\ requeried[1]
    /\ pc[1] = "idle"
    /\ Len(modules[1]) = 1

\* C6: get_module::<M>() returns the first entry of modules whose kind is M,
\* and None (without failing) exactly when there is no entry of kind M, also
\* when modules is empty because no discovery has run.
C6_GetModuleFirstOfKind ==
    \A t \in Threads :
        pc[t] = "got" =>
            LET hits == {i \in 1..Len(modules[t]) : modules[t][i].kind = arg[t]}
            IN IF hits = {} THEN got[t] = 0
               ELSE got[t] \in hits /\ \A j \in hits : got[t] <= j

\* C6 witness: two entries of the requested kind exist and the first was
\* returned.
C6_Witness ==
    \E t \in Threads :
        /\ pc[t] = "got"
        /\ got[t] = 1
        /\ Len(modules[t]) = 2
        /\ modules[t][2].kind = arg[t]

\* C7 (as claimed): once default registration has run, the registry holds a
\* constructor for each of the three built-in kinds: files, members and
\* overview.
C7_ThreeDefaultsRegistered ==
    once = "done" =>
        \A M \in BuiltInTypes : MapGet(registry, NameOf(M)) = M

\* C8 (as claimed): no operation fails because another operation failed:
\* no call finds the registry unusable (its mutex poisoned by the failure
\* of another call).
C8_FailureIsolated ==
    \A t \in Threads : pc[t] # "panicked_poison"

\* the tabs of tl whose id is exactly the prefix followed by a registered
\* name
ExactlyPrefixedTabs(tl, reg) ==
    {i \in 1..Len(tl) :
        tl[i].has_id /\ \E n \in DOMAIN reg : tl[i].id = TAB_PREFIX \o n}

\* C25 (as claimed): the prefix is removed at the start of the id only, so
\* a discovery that completes has built modules for exactly the tabs whose
\* id is "nav_course_" + N with N registered, each by the constructor
\* registered under N.
C25_PrefixRemovedAtStartOnly ==
    [][ \A t \in Threads :
          (pc[t] = "q_parse" /\ pc'[t] = "idle") =>
              LET hits == ExactlyPrefixedTabs(tabs[t], registry)
              IN /\ Len(modules'[t]) = Cardinality(hits)
                 /\ \A k \in 1..Cardinality(hits) :
                       modules'[t][k] =
                           NewModule(registry[SubSeq(tabs[t][Nth(hits, k)].id,
                                                     Len(TAB_PREFIX) + 1,
                                                     Len(tabs[t][Nth(hits, k)].id))],
                                     CourseId(t))
      ]_vars

\* threads inside query_modules between taking the registry and returning
Discovering == {t \in Threads : pc[t] \in {"q_fetch", "q_parse"}}

\* C27: a thread inside query_modules past line 69 holds the registry
\* until it returns, the fetch included: meanwhile no other thread is past
\* its own lock() in register_course_module or query_modules, and the
\* registry does not change, so all tabs of the discovery are looked up in
\* the registry as it was when the discovery took it.
C27_RegistryHeldForWholeRun ==
    /\ [](\A t \in Discovering :
             /\ mutexHolder = t
             /\ \A u \in Threads \ {t} : pc[u] \notin {"q_fetch", "q_parse", "reg_insert"})
    /\ [][ Discovering # {} => registry' = registry ]_vars

\* C27 witness: while one thread waits for the response of its discovery,
\* a second thread is in register_course_module and a third party, if any,
\* is not past its lock: the registration waits.
C27_Witness ==
    \E t, u \in Threads :
        /\ t # u
        /\ pc[t] = "q_fetch"
        /\ mutexHolder = t
        /\ pc[u] = "reg_lock"
        /\ caller[u] = "user"
        /\ NameOf(arg[u]) \notin DOMAIN registry

(***************************************************************************)
(* Claims about MyCourses.                                                 *)
(***************************************************************************)
\* the last member of a setCourses object with key k
LastMember(members, k) ==
    members[CHOOSE i \in 1..Len(members) :
                /\ members[i].key = k
                /\ \A j \in 1..Len(members) : members[j].key = k => j <= i]

\* C9: after a successful MyCourses.query, courses, set_groups, user_id and
\* config are exactly those of the payload just parsed: the course keys are
\* the payload's keys (none of an earlier query survives), each course is
\* the payload's, and groups, user id and config are the payload's.
C9_ReplacedWholesale ==
    mcResp.kind = "ok" =>
        LET p == mcResp.payload
        IN /\ DOMAIN mc.courses = {p.setCourses[i].key : i \in 1..Len(p.setCourses)}
           /\ \A k \in DOMAIN mc.courses :
                 /\ mc.courses[k].id = k
                 /\ mc.courses[k].name = LastMember(p.setCourses, k).name
           /\ mc.set_groups = p.setGroups
           /\ mc.user_id = p.setUserId
           /\ mc.config = p.setConfig

\* C9 witness: a successful query left out a course that the aggregate held
\* before it; the aggregate now holds course "b" only and no set group.
C9_Witness ==
    /\ mcResp.kind = "ok"
    /\ mcPc = "idle"
    /\ mcDropped
    /\ DOMAIN mc.courses = {"b"}
    /\ mc.set_groups = <<>>

\* C26 (as claimed): the aggregate and every course it holds use the
\* transport the aggregate was created with, and every MyCourses.query was
\* sent through it.
C26_SameTransport ==
    /\ mc.client = "session"
    /\ \A k \in DOMAIN mc.courses : mc.courses[k].client = "session"
    /\ mcSentVia \in {"none", "session"}

\* C30: a refresh that returns an error changes nothing: after a failed
\* MyCourses.query the aggregate's courses, set_groups, user_id and config
\* are those from before the call, and after a query_modules that returns
\* an error the course's modules are those from before the call.
C30_FailedRefreshKeepsState ==
    [][ /\ (mcPc = "sent" /\ mcPc' = "idle" /\ mcResp'.kind # "ok") =>
              /\ mc'.courses = mc.courses
              /\ mc'.set_groups = mc.set_groups
              /\ mc'.user_id = mc.user_id
              /\ mc'.config = mc.config
        /\ \A t \in Threads :
              (pc[t] = "q_fetch" /\ pc'[t] = "idle") => modules'[t] = modules[t]
      ]_vars

\* C30 witness: the last MyCourses.query failed and the aggregate still
\* holds the course and the user id of the query before it, beside a course
\* whose modules were discovered.
C30_Witness ==
    /\ mcPc = "idle"
    /\ mcResp.kind \in {"transport", "no_script", "bad_json"}
    /\ DOMAIN mc.courses # {}
    /\ mc.user_id = "u1"
    /\ pc[1] = "idle"
    /\ modules[1] # <<>>

C11_JoinLeaveByStatus ==
    opCall.op \in {"try_join_group", "try_leave_group"} =>
        /\ Len(opSent) = 1
        /\ opSent[1].method = "GET"
        /\ opSent[1].url =
              GROUPS_URL \o <<IF opCall.op = "try_join_group"
                              THEN "/join/" ELSE "/leave/", opCall.group>>
        /\ opResp.kind = "http" =>
              /\ opResult.kind = "ok" <=> opResp.status \in 200..299
              /\ opResult.kind = "err" <=> opResp.status \notin 200..299
              /\ opResult.kind = "err" =>
                    opResult.msg[Len(opResult.msg)] = opResp.status
        /\ opResult.kind = "ok" => opResp.kind = "http"

\* C11 witness: a join answered with 403 has returned a failure that names
\* 403, after one request.
C11_Witness ==
    /\ opCall.op = "try_join_group"
    /\ opPc = "done"
    /\ opResp.kind = "http"
    /\ opResp.status = 403
    /\ opResult.kind = "err"
    /\ opResult.msg[2] = 403
    /\ Len(opSent) = 1

\* the Content-Type of a response says JSON
JsonContentType(ct) ==
    ct.present /\ ct.ascii /\ ct.value[1] = "application/json"

\* C12: global_search returns, for a 2xx response with a JSON content type
\* whose body is exactly [], a SearchResult with all four categories
\* absent and never an error; a status that is not 2xx gives an error, and
\* so does a content type that is not JSON; the status is checked before
\* the content type (the error of a non-2xx response is the status error
\* whatever the headers and the body are) and the content type before the
\* body (the error of a 2xx response without a JSON content type is a
\* content type error whatever the body is).
C12_GlobalSearchChecks ==
    (opCall.op = "global_search" /\ opResp.kind = "http") =>
        LET st == opResp.status
            ct == opResp.content_type
            body == opResp.body
        IN /\ (st \in 200..299 /\ JsonContentType(ct) /\ body.readable
                  /\ body.text = <<"[", "]">>) =>
                 /\ opResult.kind = "ok"
                 /\ \A k \in CategoryKeys : ~opResult.value[k].some
           /\ st \notin 200..299 =>
                 /\ opResult.kind = "err"
                 /\ opResult.msg = <<"Could not search. Status Code: ", st>>
           /\ (st \in 200..299 /\ ~JsonContentType(ct)) =>
                 /\ opResult.kind = "err"
                 /\ opResult.msg[1] \in {"Expected content-type",
                                         "Cannot convert content type to sting",
                                         "Expected JSON. Got ContentType: "}

\* C12 witness: a search answered 200, application/json, [] has returned
\* the result without categories.
C12_Witness ==
    /\ opCall.op = "global_search"
    /\ opPc = "done"
    /\ opResp.kind = "http"
    /\ opResp.status = 200
    /\ opResp.content_type.value = <<"application/json", "; charset=utf-8">>
    /\ opResp.body.readable
    /\ opResp.body.text = <<"[", "]">>
    /\ opResult = Ok(DefaultSearchResult)

\* the calls of a complete login, in order
LoginCallOrder ==
    <<[method |-> "GET", url |-> HOST_URL],
      [method |-> "GET", url |-> LOGIN_URL],
      [method |-> "IdP::login", url |-> <<"redirected_url">>],
      [method |-> "POST", url |-> SAML_RESPONSE_URL],
      [method |-> "GET", url |-> START_URL]>>

\* the steps of a login, in order, and the position of each step's call
LoginStepOrder == <<"cookies", "credentials", "redirect", "idp", "saml", "start">>
LoginCallOf(step) ==
    CASE step = "redirect" -> 2 [] step = "idp" -> 3
      [] step = "saml" -> 4 [] step = "start" -> 5

\* a step of the claim succeeded
LoginStepSucceeded(o) ==
    CASE o.step = "redirect" -> o.met.kind = "http"
      [] o.step = "idp" -> o.met.kind = "ok"
      [] o.step = "saml" -> o.met.kind = "http" /\ o.met.status \in 200..299
      [] o.step = "start" -> /\ o.met.kind = "http"
                            /\ o.met.status \in 200..299
                            /\ o.met.page = "start_page"
      [] OTHER -> TRUE

\* C13: login makes its calls in the order redirect request, identity
\* provider, SAML POST-back, start page probe; it returns a session only
\* if each of the four succeeded (the POST-back and the probe with a 2xx
\* status, the probed page without a login marker); when one of them
\* fails, login returns an error, that step is the last one executed and
\* no session is returned.
C13_LoginStepsInOrder ==
    opCall.op = "login" =>
        LET outs == opResp.outcomes
        IN /\ Len(opSent) <= Len(LoginCallOrder)
           /\ opSent = SubSeq(LoginCallOrder, 1, Len(opSent))
           /\ \A i \in 1..Len(outs) : outs[i].step = LoginStepOrder[i]
           /\ opResult.kind = "ok" =>
                 /\ opResult.value = Session
                 /\ opSent = LoginCallOrder
                 /\ \A s \in {"redirect", "idp", "saml", "start"} :
                       \E i \in 1..Len(outs) :
                           outs[i].step = s /\ LoginStepSucceeded(outs[i])
           /\ \A i \in 1..Len(outs) :
                 ~LoginStepSucceeded(outs[i]) =>
                     /\ opPc = "done"
                     /\ opResult.kind = "err"
                     /\ i = Len(outs)
                     /\ Len(opSent) = LoginCallOf(outs[i].step)

\* C13 witness: a login whose SAML POST-back was answered 403 has returned
\* an error without probing the start page.
C13_Witness ==
    /\ opCall.op = "login"
    /\ opPc = "done"
    /\ Len(opResp.outcomes) = 5
    /\ opResp.outcomes[5].step = "saml"
    /\ opResp.outcomes[5].met.status = 403
    /\ opResult.kind = "err"
    /\ Len(opSent) = 4

\* a login that passed all four steps has returned the session
C13_WitnessSession ==
    /\ opCall.op = "login"
    /\ opPc = "done"
    /\ opResult = Ok(Session)

\* a string that writes an integer: an optional sign, then digits
IsIntegerString(s) ==
    LET digits == IF s # <<>> /\ s[1] \in {"+", "-"} THEN Tail(s) ELSE s
    IN digits # <<>> /\ \A i \in 1..Len(digits) : digits[i] \in Digits

\* a string that writes an integer without a minus sign
IsUnsignedString(s) == IsIntegerString(s) /\ s[1] # "-"

\* an author_url from which a username can be read
HasUsername(url) ==
    url.valid /\ \E i \in 1..Len(url.query) : url.query[i].key = "username"

\* the form, both attributes and valid JSON in both are there
FilesPageDecodes(page) ==
    /\ page.form
    /\ page.data_files.some /\ page.data_folders.some
    /\ page.data_files.v.json /\ page.data_folders.v.json

\* the FolderContents has one File per data-files entry and one Folder
\* per data-folders entry, in order, each author tagged Course(course_id)
OnePerEntry(contents, page) ==
    LET files == page.data_files.v.entries
        folders == page.data_folders.v.entries
    IN /\ Len(contents.files) = Len(files)
       /\ Len(contents.folders) = Len(folders)
       /\ \A i \in 1..Len(files) :
             /\ contents.files[i].object.id = files[i].id
             /\ contents.files[i].object.author.source = Course(FilesCourseId)
       /\ \A i \in 1..Len(folders) :
             /\ contents.folders[i].object.id = folders[i].id
             /\ contents.folders[i].object.author.source = Course(FilesCourseId)

C14_WitnessMalformed ==
    /\ opCall.op = "get_root"
    /\ opPc = "done"
    /\ opResp.kind = "page"
    /\ FilesPageDecodes(opResp.page)
    /\ Len(opResp.page.data_files.v.entries) = 2
    /\ opResp.page.data_files.v.entries[2].size = <<"4", "x">>
    /\ opResult.kind = "err"

\* the captions, lower-cased, of the tables of a category
CategoryCaptions ==
    [lecturers |-> {<<"dozierende">>, <<"lecturers">>},
     tutors |-> {<<"tutor*innen">>, <<"tutors">>},
     students |-> {<<"studierende">>, <<"students">>}]

Categories == DOMAIN CategoryCaptions

\* the tables of a page that are captioned for a category
TablesOf(page, cat) ==
    {i \in 1..Len(page) :
        /\ page[i].caption.some
        /\ ToLowercase(Trim(page[i].caption.v)) \in CategoryCaptions[cat]}

\* the usernames that the rows of a table link to, rows that have the
\* link, the username, the image and its source
UsernamesOfTable(table) ==
    {table.rows[j].href.v.query[1].value :
        j \in {k \in 1..Len(table.rows) :
                 /\ table.rows[k].link /\ table.rows[k].img /\ table.rows[k].src.some
                 /\ table.rows[k].href.some /\ table.rows[k].href.v.valid
                 /\ table.rows[k].href.v.query # <<>>}}

UsernamesOf(users) == {users[i].username : i \in 1..Len(users)}

\* C15: get_members does not fail when a category is missing: for a page
\* that was received, the result is Ok; a category without a table
\* captioned for it is the empty sequence, and a category with such
\* tables holds the users of one of them.
C15_MissingCategoryIsEmpty ==
    (opCall.op = "get_members" /\ opResp.kind = "page") =>
        /\ opResult.kind = "ok"
        /\ \A cat \in Categories :
              IF TablesOf(opResp.page, cat) = {}
              THEN opResult.value[cat] = <<>>
              ELSE \E i \in TablesOf(opResp.page, cat) :
                      UsernamesOf(opResult.value[cat]) = UsernamesOfTable(opResp.page[i])

\* C15 witness: a page with a students table only gave that student and
\* no lecturers and no tutors.
C15_Witness ==
    /\ opCall.op = "get_members"
    /\ opPc = "done"
    /\ opResp.kind = "page"
    /\ TablesOf(opResp.page, "lecturers") = {}
    /\ TablesOf(opResp.page, "tutors") = {}
    /\ opResult.kind = "ok"
    /\ opResult.value.lecturers = <<>>
    /\ opResult.value.tutors = <<>>
    /\ UsernamesOf(opResult.value.students) = {<<"alice">>}

\* C16 (as claimed): no username occurs in two of lecturers, tutors and
\* students of a returned CourseMembers.
C16_CategoriesDisjoint ==
    (opCall.op = "get_members" /\ opResult.kind = "ok") =>
        \A c1, c2 \in Categories :
            c1 # c2 =>
                UsernamesOf(opResult.value[c1]) \cap UsernamesOf(opResult.value[c2]) = {}

(***************************************************************************)
(* Claims about pure functions.                                            *)
(***************************************************************************)
\* C17: two File records, and two Folder records, are equal exactly when
\* the ids of their embedded objects are equal, whatever the other fields
\* are; the equality is reflexive, symmetric and transitive.
C17_EqualityById ==
    fnCall.fn \in {"File::eq", "Folder::eq"} =>
        /\ fnOut.ab <=> fnCall.a.object.id = fnCall.b.object.id
        /\ fnOut.bc <=> fnCall.b.object.id = fnCall.c.object.id
        /\ fnOut.aa
        /\ fnOut.ab <=> fnOut.ba
        /\ (fnOut.ab /\ fnOut.bc) => fnOut.ac

\* C17 witness: two Files with the same id that differ in name, change
\* date, size and downloads compared equal.
C17_Witness ==
    /\ fnCall.fn = "File::eq"
    /\ fnCall.a.object.id = fnCall.b.object.id
    /\ fnCall.a.object.name # fnCall.b.object.name
    /\ fnCall.a.object.change_date # fnCall.b.object.change_date
    /\ fnCall.a.size # fnCall.b.size
    /\ fnCall.a.downloads # fnCall.b.downloads
    /\ fnCall.b.object.id # fnCall.c.object.id
    /\ fnOut.ab
    /\ ~fnOut.bc

\* the discriminator of a variant
Discriminator ==
    [All |-> <<"show_all_categories">>, Courses |-> <<"GlobalSearchCourses">>,
     Users |-> <<"GlobalSearchUsers">>, Institutions |-> <<"GlobalSearchInstitutes">>,
     Messages |-> <<"GlobalSearchMessages">>]

\* s is the decimal writing of n: digits, no leading zero, value n
IsDecimalOf(s, n) ==
    /\ s # <<>>
    /\ \A i \in 1..Len(s) : s[i] \in Digits
    /\ Len(s) > 1 => s[1] # "0"
    /\ DecimalValue(s) = n

\* the filter of the example and the text it is to give
ExampleFilter ==
    [variant |-> "Courses", semester |-> [variant |-> "All", unix_timestamp |-> 0],
     seminar_type_id |-> Some(<<"1">>), institute_id |-> Some(<<"2", "1", "2", "3">>)]

ExampleText ==
    <<"{", "\"", "category", "\"", ":", "\"", "GlobalSearchCourses", "\"", ",",
      "\"", "semester", "\"", ":", "\"", "\"", ",",
      "\"", "seminar_type", "\"", ":", "\"", "1", "\"", ",",
      "\"", "institute", "\"", ":", "\"", "2", "1", "2", "3", "\"", "}">>

\* C18: the serialized SearchFilter is a map whose first key is category
\* with the variant's discriminator; Courses then has semester, then
\* seminar_type only if set, then institute only if set (semester All is
\* the empty string, Future "future", Specific the decimal timestamp);
\* Users, Institutions and Messages have the category key alone; the
\* example filter gives exactly the example text.
C18_FilterSerialization ==
    fnCall.fn = "to_string" =>
        LET f == fnCall.filter
            e == fnOut.entries
            keys == [i \in 1..Len(e) |-> e[i].key]
        IN /\ e[1] = Entry("category", Discriminator[f.variant])
           /\ f.variant = "Courses" =>
                 /\ keys = <<"category", "semester">>
                           \o (IF f.seminar_type_id.some THEN <<"seminar_type">> ELSE <<>>)
                           \o (IF f.institute_id.some THEN <<"institute">> ELSE <<>>)
                 /\ f.semester.variant = "All" => e[2].value = <<>>
                 /\ f.semester.variant = "Future" => e[2].value = <<"future">>
                 /\ f.semester.variant = "Specific" =>
                       IsDecimalOf(e[2].value, f.semester.unix_timestamp)
                 /\ f.seminar_type_id.some => e[3].value = f.seminar_type_id.v
                 /\ f.institute_id.some => e[Len(e)].value = f.institute_id.v
           /\ f.variant \in {"Users", "Institutions", "Messages"} =>
                 keys = <<"category">>
           /\ f = ExampleFilter => fnOut.text = ExampleText

\* C18 witness: the example filter was serialized to the example text.
C18_Witness ==
    /\ fnCall.fn = "to_string"
    /\ fnCall.filter = ExampleFilter
    /\ fnOut.text = ExampleText

\* a Courses filter of a specific semester with the institute only
C18_WitnessSpecific ==
    /\ fnCall.fn = "to_string"
    /\ fnCall.filter.variant = "Courses"
    /\ fnCall.filter.semester = [variant |-> "Specific", unix_timestamp |-> 2024]
    /\ ~fnCall.filter.seminar_type_id.some
    /\ fnCall.filter.institute_id.some
    /\ Len(fnOut.entries) = 3
    /\ fnOut.entries[2].value = <<"2", "0", "2", "4">>

\* the nesting depth of the marks before each position is 0 or 1 and 0 at
\* the end: every <mark> is closed and no pair is inside another
RECURSIVE Depth(_)
Depth(s) ==
    IF s = <<>> THEN 0
    ELSE Depth(SubSeq(s, 1, Len(s) - 1))
         + (CASE s[Len(s)] = OpenMark -> 1 [] s[Len(s)] = CloseMark -> -1 [] OTHER -> 0)

NonNestedPairsOnly(s) ==
    /\ \A k \in 1..Len(s) : Depth(SubSeq(s, 1, k)) \in {0, 1}
    /\ Depth(s) = 0

\* a complete pair: a <mark> with a </mark> behind it
HasCompletePair(s) ==
    \E i, j \in 1..Len(s) : i < j /\ s[i] = OpenMark /\ s[j] = CloseMark

WithoutMarks(s) == SelectSeq(s, LAMBDA t : t \notin {OpenMark, CloseMark})

\* C19 (as claimed): strip_markings removes every non-nested pair of
\* <mark> and </mark>, keeping the text inside and outside in order; it is
\* the identity on a text without complete pair; of the doubly nested
\* example it removes one level.
C19_StripMarkings ==
    fnCall.fn = "strip_markings" =>
        /\ NonNestedPairsOnly(fnCall.str) => fnOut = WithoutMarks(fnCall.str)
        /\ ~HasCompletePair(fnCall.str) => fnOut = fnCall.str
        /\ fnCall.str = <<"John ", OpenMark, OpenMark, "Connman", CloseMark, CloseMark>> =>
              fnOut = <<"John ", OpenMark, "Connman", CloseMark>>

\* the same for texts without line feed
C19_StripMarkingsOnOneLine ==
    (fnCall.fn = "strip_markings" /\ DotMatches(fnCall.str, 1, Len(fnCall.str))) =>
        /\ NonNestedPairsOnly(fnCall.str) => fnOut = WithoutMarks(fnCall.str)
        /\ ~HasCompletePair(fnCall.str) => fnOut = fnCall.str
        /\ fnCall.str = <<"John ", OpenMark, OpenMark, "Connman", CloseMark, CloseMark>> =>
              fnOut = <<"John ", OpenMark, "Connman", CloseMark>>

\* a label without its case, the whitespace at its ends and one trailing
\* colon (with the whitespace before it)
RECURSIVE StripEnds(_)
StripEnds(s) ==
    IF s # <<>> /\ s[1] \in Whitespace THEN StripEnds(Tail(s))
    ELSE IF s # <<>> /\ s[Len(s)] \in Whitespace
    THEN StripEnds(SubSeq(s, 1, Len(s) - 1))
    ELSE s

LabelCore(label) ==
    LET ends == StripEnds(label)
        colon == IF ends # <<>> /\ ends[Len(ends)] = ":"
                 THEN SubSeq(ends, 1, Len(ends) - 1) ELSE ends
    IN [i \in 1..Len(StripEnds(colon)) |->
           CASE StripEnds(colon)[i] = "Subtitle" -> "subtitle"
             [] StripEnds(colon)[i] = "Untertitel" -> "untertitel"
             [] OTHER -> StripEnds(colon)[i]]

\* C20: labels that differ only in case, in whitespace at their ends and
\* in a trailing colon have the same core; a label whose core is in the
\* translation table gives the key of the core, so all such labels give
\* the same key; a label whose normalized form is not in the table is
\* returned as it was passed in.
C20_LocalToKey ==
    fnCall.fn = "local_to_key" =>
        /\ LabelCore(fnCall.localized) \in DOMAIN LOCAL_TO_KEY =>
              fnOut = LOCAL_TO_KEY[LabelCore(fnCall.localized)]
        /\ (/\ LabelCore(fnCall.localized) \notin DOMAIN LOCAL_TO_KEY
            /\ TrimEndMatches(LabelCore(fnCall.localized), ":") = LabelCore(fnCall.localized)) =>
              fnOut = fnCall.localized

\* C20 witness: "Subtitle  :  "-like label (upper case, whitespace before
\* and behind the colon) gave the key.
C20_Witness ==
    /\ fnCall.fn = "local_to_key"
    /\ fnCall.localized = <<"Subtitle", " ", ":", " ">>
    /\ fnOut = <<"SUBTITLE">>

\* an unknown label with whitespace and a colon was returned unchanged
C20_WitnessUnknown ==
    /\ fnCall.fn = "local_to_key"
    /\ fnCall.localized = <<" ", "name", ":">>
    /\ fnOut = <<" ", "name", ":">>

(***************************************************************************)
(* Claims about get_groups.                                                *)
(***************************************************************************)
\* a count "<members>" or "<members>/<max_members>" in ASCII digits
IsNumber(s) == s # <<>> /\ \A i \in 1..Len(s) : s[i] \in Digits

IsCount(mid) ==
    \/ IsNumber(mid)
    \/ \E j \in 1..Len(mid) :
          /\ mid[j] = "/"
          /\ IsNumber(SubSeq(mid, 1, j - 1))
          /\ IsNumber(SubSeq(mid, j + 1, Len(mid)))

\* the positions of the blank before the count of a label
\* "<name> (<members>[/<max_members>])"
CountStarts(label) ==
    {k \in 2..(Len(label) - 3) :
        /\ label[k] = " " /\ label[k + 1] = "(" /\ label[Len(label)] = ")"
        /\ IsCount(SubSeq(label, k + 2, Len(label) - 1))}

OfLabelForm(label) == CountStarts(label) # {}

\* the name, members and max_members a label of the form stands for
LabelMeaning(label) ==
    LET k == CHOOSE k \in CountStarts(label) : TRUE
        mid == SubSeq(label, k + 2, Len(label) - 1)
        slash == FirstAt(mid, "/", 1)
    IN [name |-> SubSeq(label, 1, k - 1),
        members |-> DecimalValue(IF slash = 0 THEN mid ELSE SubSeq(mid, 1, slash - 1)),
        max_members |-> IF slash = 0 THEN 0
                        ELSE DecimalValue(SubSeq(mid, slash + 1, Len(mid)))]

\* the tooltip of a join-disabled icon has no parseable date
NoParseableDate(title) ==
    \/ ~title.some
    \/ ~title.v.stamp.some
    \/ ~ParsesAsDateTime(title.v.stamp.v)

\* a header with a heading whose label is of the form, and whose info
\* icon, if any, sits in a link with an absolute URL
WellFormedHeader(header) ==
    /\ header.h1.some
    /\ OfLabelForm(Trim(header.h1.v))
    /\ header.info => (header.href.some /\ header.href.v.valid)

\* what the claim says of the group parsed from a header
GroupAsClaimed(group, header) ==
    LET meaning == LabelMeaning(Trim(header.h1.v))
    IN /\ group.name = meaning.name
       /\ group.members = meaning.members
       /\ group.max_members = meaning.max_members
       /\ ~header.info => group.id = "nogroup"
       /\ (~header.door \/ NoParseableDate(header.title)) =>
              group.enables_entry_at = None

\* C21 (as claimed): get_groups parses each header label of the form
\* "<name> (<members>[/<max_members>])" into name, members and max_members
\* (0 when "/<max>" is absent), gives the id "nogroup" to a header without
\* info icon, and leaves enables_entry_at unset when there is no
\* join-disabled icon or its tooltip has no parseable date.
C21_GroupsParsed ==
    (/\ opPc = "done"
     /\ opCall.op = "get_groups"
     /\ opResp.kind = "page"
     /\ \A i \in 1..Len(opResp.page) : WellFormedHeader(opResp.page[i]))
    => /\ opResult.kind = "ok"
       /\ Len(opResult.value) = Len(opResp.page)
       /\ \A i \in 1..Len(opResp.page) :
             GroupAsClaimed(opResult.value[i], opResp.page[i])

\* C21, on pages whose join-disabled icons have a title that holds either
\* no text of the shape dd.mm.yyyy hh:mm or a date and time that exist
C21_GroupsParsedWithDatedTooltips ==
    (/\ opPc = "done"
     /\ opCall.op = "get_groups"
     /\ opResp.kind = "page"
     /\ \A i \in 1..Len(opResp.page) :
           /\ WellFormedHeader(opResp.page[i])
           /\ opResp.page[i].door =>
                 /\ opResp.page[i].title.some
                 /\ opResp.page[i].title.v.stamp.some =>
                       ParsesAsDateTime(opResp.page[i].title.v.stamp.v))
    => /\ opResult.kind = "ok"
       /\ Len(opResult.value) = Len(opResp.page)
       /\ \A i \in 1..Len(opResp.page) :
             GroupAsClaimed(opResult.value[i], opResp.page[i])

\* "Team A (3/10)" and "Team B (5)" on one page were parsed into members 3,
\* max_members 10 and members 5, max_members 0
C21_WitnessTeams ==
    /\ opPc = "done"
    /\ opCall.op = "get_groups"
    /\ opResult.kind = "ok"
    /\ Len(opResult.value) = 2
    /\ opResult.value[1].name = <<"Team A">>
    /\ opResult.value[1].members = 3 /\ opResult.value[1].max_members = 10
    /\ opResult.value[2].name = <<"Team B">>
    /\ opResult.value[2].members = 5 /\ opResult.value[2].max_members = 0
    /\ opResult.value[2].id = "nogroup"

\* a header without a heading, or whose label the name pattern does not
\* match
MalformedHeader(header) ==
    \/ ~header.h1.some
    \/ ~RegexCaptures(Trim(header.h1.v)).matched

\* a header that is complete and has no join-disabled icon
FineHeader(header) == WellFormedHeader(header) /\ ~header.door

\* a row without a user link
RowWithoutLink(row) == ~row.link

\* member-table parsing skips the rows without a user link and returns the
\* users of the other rows
BadRowsSkipped ==
    (opPc = "done" /\ opCall.op = "get_members" /\ opResp.kind = "page") =>
        /\ opResult.kind = "ok"
        /\ \A i \in 1..Len(opResp.page) :
              parse_member_table(opResp.page[i], Course(MembersCourseId)).kind = "ok"
        /\ \A cat \in Categories :
              TablesOf(opResp.page, cat) # {} =>
                  \E i \in TablesOf(opResp.page, cat) :
                      /\ UsernamesOf(opResult.value[cat]) = UsernamesOfTable(opResp.page[i])
                      /\ Len(opResult.value[cat]) =
                            Cardinality({k \in 1..Len(opResp.page[i].rows) :
                                ~RowWithoutLink(opResp.page[i].rows[k])
                                /\ ParseMemberRow(opResp.page[i].rows[k],
                                                  Course(MembersCourseId)).some})

\* C24 (as claimed): one malformed item does not abort the operation:
\* get_groups on a page whose headers are complete or malformed (no
\* heading, or a label that does not match the pattern) returns the groups
\* of the complete headers, and member-table parsing returns the users of
\* the rows that have a user link.
C24_MalformedItemsSkipped ==
    /\ BadRowsSkipped
    /\ (/\ opPc = "done"
        /\ opCall.op = "get_groups"
        /\ opResp.kind = "page"
        /\ \A i \in 1..Len(opResp.page) :
              FineHeader(opResp.page[i]) \/ MalformedHeader(opResp.page[i]))
       => /\ opResult.kind = "ok"
          /\ Len(opResult.value) =
                Cardinality({i \in 1..Len(opResp.page) : FineHeader(opResp.page[i])})

\* a members page with a row without user link before a row with one gave
\* the user of the second row
C24_WitnessRowSkipped ==
    /\ opPc = "done"
    /\ opCall.op = "get_members"
    /\ opResp.kind = "page"
    /\ Len(opResp.page) = 1
    /\ Len(opResp.page[1].rows) = 2
    /\ RowWithoutLink(opResp.page[1].rows[1])
    /\ opResult.kind = "ok"
    /\ UsernamesOf(opResult.value.tutors) = {<<"bob">>}

(***************************************************************************)
(* Claims about news articles.                                             *)
(***************************************************************************)
\* the comments on a page that belong to an article, parsed in page order
CommentsOnPage(page, id) ==
    [i \in 1..Len(SelectComments(page, id)) |->
        ParseComment(SelectComments(page, id)[i]).value]

\* C22 (as claimed): every article that parse_news_box returns has no
\* comments, and a query_comments call that succeeds on a page with
\* comments of the article leaves in comments one NewsComment per comment
\* element of the article, in page order, and in n_comments their number.
C22_CommentsReplacedByAllFound ==
    /\ (opPc = "done" /\ opCall.op = "parse_news_box" /\ opResult.kind = "ok") =>
           \A i \in 1..Len(opResult.value) : opResult.value[i].comments = <<>>
    /\ (/\ opPc = "done"
        /\ opCall.op = "query_comments"
        /\ opResp.kind = "page"
        /\ opResult.kind = "ok"
        /\ SelectComments(opResp.page, article.v.id) # <<>>) =>
           /\ article.v.comments = CommentsOnPage(opResp.page, article.v.id)
           /\ article.v.n_comments = Len(article.v.comments)

\* C22, for pages with at most one comment of the article
C22_CommentsReplacedByTheOneFound ==
    /\ (opPc = "done" /\ opCall.op = "parse_news_box" /\ opResult.kind = "ok") =>
           \A i \in 1..Len(opResult.value) : opResult.value[i].comments = <<>>
    /\ (/\ opPc = "done"
        /\ opCall.op = "query_comments"
        /\ opResp.kind = "page"
        /\ opResult.kind = "ok"
        /\ Len(SelectComments(opResp.page, article.v.id)) = 1) =>
           /\ article.v.comments = CommentsOnPage(opResp.page, article.v.id)
           /\ article.v.n_comments = Len(article.v.comments)

(***************************************************************************)
(* Claims about questionnaires.                                            *)
(***************************************************************************)
\* what a result row shows: its text, and the counts "(p% | v/t)" of its
\* cell
RowShows(row) ==
    LET cell == Trim(row.counts.v)
        bar == FirstAt(cell, "|", 1)
        slash == FirstAt(cell, "/", 1)
    IN [text |-> Trim(row.text.v),
        n_voters |-> DecimalValue(SubSeq(cell, bar + 2, slash - 1)),
        total_voters |-> DecimalValue(SubSeq(cell, slash + 1, Len(cell) - 1))]

\* a query_results call has returned Ok for a page of result rows
ResultsQueried ==
    /\ opPc = "done"
    /\ opCall.op = "query_results"
    /\ opResp.kind = "page"
    /\ opResult.kind = "ok"

\* the voters of option i before the call (None for an option pushed by it)
VotersBefore(i) ==
    IF i <= Len(opCall.self.options) THEN opCall.self.options[i].voters ELSE None

\* C23: a query_results call that succeeds updates the options by
\* position: row i sets text and n_voters of option i, an option with value
\* i (counted from 0) having been appended when the row is beyond the
\* options, so the options are as many as before or as the rows, whichever
\* is more, and keep their values; total_voters is that of the rows; and the
\* voters of an option change only when its row counts n_voters > 0 and
\* exposes at least one voter.  A call that fails drops no option either.
C23_ResultsByPosition ==
    /\ (opPc = "done" /\ opCall.op = "query_results") =>
           Len(questionnaire.v.options) >= Len(opCall.self.options)
    /\ ResultsQueried =>
         LET before == opCall.self.options
             after == questionnaire.v.options
             rows == opResp.page
         IN /\ Len(after) = IF Len(rows) > Len(before) THEN Len(rows) ELSE Len(before)
            /\ \A i \in 1..Len(after) :
                  /\ after[i].value = IF i <= Len(before) THEN before[i].value ELSE i - 1
                  /\ i <= Len(rows) =>
                        /\ after[i].text = RowShows(rows[i]).text
                        /\ after[i].n_voters = RowShows(rows[i]).n_voters
                  /\ i > Len(rows) => after[i] = before[i]
                  /\ after[i].voters # VotersBefore(i) =>
                        /\ i <= Len(rows)
                        /\ after[i].n_voters > 0
                        /\ rows[i].voters # <<>>
                        /\ after[i].voters.some
                        /\ Len(after[i].voters.v) = Len(rows[i].voters)
            /\ rows # <<>> =>
                  questionnaire.v.total_voters = RowShows(rows[Len(rows)]).total_voters
            /\ rows = <<>> => questionnaire.v.total_voters = opCall.self.total_voters

\* C23 witness: a questionnaire with the one option "Yes" was given two
\* rows: the first set the two voters of "Yes", the second appended the
\* option with value 1, text "No" and no votes, and total_voters is the 12
\* of the last row.
C23_Witness ==
    /\ ResultsQueried
    /\ Len(opCall.self.options) = 1
    /\ Len(questionnaire.v.options) = 2
    /\ questionnaire.v.options[1].n_voters = 2
    /\ questionnaire.v.options[1].voters.some
    /\ Len(questionnaire.v.options[1].voters.v) = 2
    /\ questionnaire.v.options[2] =
          [text |-> <<"No">>, value |-> 1, n_voters |-> 0, voters |-> None]
    /\ questionnaire.v.total_voters = 12

\* C23 witness: a row that counts votes and exposes no voter left the
\* option without voters
C23_WitnessAnonymous ==
    /\ ResultsQueried
    /\ Len(opResp.page) = 1
    /\ opResp.page[1].voters = <<>>
    /\ questionnaire.v.options[1].n_voters = 2
    /\ questionnaire.v.options[1].voters = None

\* C28 (as claimed): after any sequence of query_results calls every option
\* whose voters is present has n_voters > 0, and an option has no voters
\* once the latest results show none for it.
C28_VotersAreLatest ==
    questionnaire.some =>
        /\ \A i \in 1..Len(questionnaire.v.options) :
              questionnaire.v.options[i].voters.some =>
                  questionnaire.v.options[i].n_voters > 0
        /\ ResultsQueried =>
              \A i \in 1..Len(opResp.page) :
                  opResp.page[i].voters = <<>> =>
                      questionnaire.v.options[i].voters = None


(***************************************************************************)
(* Claims about the courses of a set group.                                *)
(***************************************************************************)
\* the position of the first occurrence of id in ids
FirstOccurrence(ids, id) ==
    CHOOSE i \in DOMAIN ids : ids[i] = id /\ \A j \in 1..(i - 1) : ids[j] # id

\* handles is a list of distinct slots of courses, each the slot of an id of
\* the group, in the order in which the ids first occur in the group
DistinctInOrder(handles, group, courses) ==
    LET ids == FlatMapIds(group.entries)
    IN /\ \A i, j \in DOMAIN handles : i # j => handles[i] # handles[j]
       /\ \A i \in DOMAIN handles :
             /\ handles[i] \in DOMAIN courses
             /\ \E k \in DOMAIN ids : ids[k] = handles[i]
       /\ \A i, j \in DOMAIN handles :
             i < j => FirstOccurrence(ids, handles[i]) < FirstOccurrence(ids, handles[j])

\* C29: get_courses and get_courses_by_set_group_name return each course at
\* most once, even when its id occurs several times in the entries of the
\* group; they return only courses of the mapping, in the order of the
\* first occurrence of their ids, and get_courses_by_set_group_name returns
\* the empty list when no set group has the given name.
C29_CoursesOnceInOrder ==
    /\ fnCall.fn = "get_courses" =>
          DistinctInOrder(fnOut, fnCall.self, fnCall.courses)
    /\ fnCall.fn = "get_courses_by_set_group_name" =>
          LET groups == fnCall.self.set_groups
              named == {i \in DOMAIN groups : groups[i].name = fnCall.set_group_name}
          IN /\ named = {} => fnOut = <<>>
             /\ named # {} =>
                   \E i \in named : DistinctInOrder(fnOut, groups[i], fnCall.self.courses)

\* C29 witness: a group whose two entries list course "b" three times, the
\* last after "a"; both courses are in the mapping and the result is b, a.
C29_Witness ==
    /\ fnCall.fn = "get_courses"
    /\ fnCall.self.entries = <<<<"b", "b">>, <<"a", "b">>>>
    /\ DOMAIN fnCall.courses = {"a", "b"}
    /\ fnOut = <<"b", "a">>

\* C29 witness: no set group of the aggregate is named as asked, and the
\* result is empty although the courses of the groups are in the mapping.
C29_WitnessNoSuchGroup ==
    /\ fnCall.fn = "get_courses_by_set_group_name"
    /\ fnCall.set_group_name = "none"
    /\ Len(fnCall.self.set_groups) = 2
    /\ DOMAIN fnCall.self.courses = {"a", "b"}
    /\ fnOut = <<>>

=============================================================================
